---------------------------- MODULE Spec2Model ----------------------------
(* Multilevel-feedback scheduler of NachOS-4.0_MP3 (threads/scheduler.cc):   *)
(* three ready queues L1 (SJF), L2 (priority), L3 (FIFO), aging, preemption  *)
(* signalling and dispatch; and the file system of NachOS-4.0_MP4            *)
(* (filesys/filehdr.cc, filesys/filesys.cc): multilevel file headers and the *)
(* calls that create, open and remove files and directories.                 *)
EXTENDS Integers, Sequences, FiniteSets, TLC

(* ------------------------------ bounds ---------------------------------- *)
NumThreads == 3
MaxPredict == 1
MaxTicks == 3000
MaxDispatches == 1
MaxSwitches == 4
MaxWaits == 7
MaxDepth == 3
MaxCalls == 3
MaxSyscalls == 3

(* ------------------------- program constants ---------------------------- *)
AgingThreshold == 1500
AgingStep == 10
MaxPriority == 149
PriorityLimit == 150
L1Floor == 100
L2Floor == 50

NULL == 0
Threads == 1 .. NumThreads
InitPriorities == {35, 85, 145}
PredictTimes == 0 .. MaxPredict
TickStep == AgingThreshold

VARIABLES
    thr,            \* thread id -> its fields (status, priority, predictTime, ...)
    L1, L2, L3,     \* the ready queues, sequences of thread ids
    now,            \* kernel->stats->totalTicks
    currentThread,  \* kernel->currentThread
    preemptive,     \* kernel->alarm->preemptive
    nextThread,     \* the caller's result of FindNextToRun, waiting for Run
    toBeDestroyed,  \* Scheduler::toBeDestroyed
    switching,      \* TRUE between SWITCH and the code after it in Run
    aborted,        \* an ASSERT failed or a wild pointer was followed
    op,             \* history: the operation that made the last step
    insOrd,         \* history: queued threads by their latest Insert/Append
    aged,           \* history: the promotions of the last agingCheck, each with
                    \* the current thread's priority and estimate at its time
    dispatches,     \* history: how many threads FindNextToRun has handed out
    fs              \* the file system: what is on its disk, and its last call

vars == <<thr, L1, L2, L3, now, currentThread, preemptive, nextThread,
          toBeDestroyed, switching, aborted, op, insOrd, aged,
          dispatches, fs>>

(* ------------------------------ helpers --------------------------------- *)
Range(s) == {s[i] : i \in 1 .. Len(s)}

IndexOf(s, x) == CHOOSE i \in 1 .. Len(s) : s[i] = x

RemoveItem(s, x) == SelectSeq(s, LAMBDA y : y # x)

\* the element after x in s, NULL when x is last (ListElement::next)
Succ(s, x) ==
    IF x \in Range(s) /\ IndexOf(s, x) < Len(s) THEN s[IndexOf(s, x) + 1] ELSE NULL

First(s) == IF s = <<>> THEN NULL ELSE Head(s)

InsertAt(s, i, x) == SubSeq(s, 1, i - 1) \o <<x>> \o SubSeq(s, i, Len(s))

\* Timecmp(t1, t2) on the two threads' fields
TimecmpWrong(a, b) == IF a.predictTime > b.predictTime THEN 1 ELSE -1
Timecmp(a, b) == IF a.predictTime >= b.predictTime THEN 1 ELSE -1

\* Pricmp(t1, t2) on the two threads' fields
PricmpWrong(a, b) == IF a.priority < b.priority THEN 1 ELSE -1
Pricmp(a, b) == IF a.priority <= b.priority THEN 1 ELSE -1

\* SortedList::Insert: the item goes before the first element it compares
\* below (compare < 0), or to the end
InsertBefore(s, x, below) ==
    IF below = {} THEN Append(s, x)
    ELSE InsertAt(s, CHOOSE i \in below : \A j \in below : i <= j, x)

\* L1->Insert(thread): SortedList<Thread *>(Timecmp)
InsertL1(s, x, th) ==
    InsertBefore(s, x, {i \in 1 .. Len(s) : Timecmp(th[x], th[s[i]]) < 0})

\* L2->Insert(thread): SortedList<Thread *>(Pricmp)
InsertL2(s, x, th) ==
    InsertBefore(s, x, {i \in 1 .. Len(s) : Pricmp(th[x], th[s[i]]) < 0})

\* the queue ReadyToRun and aging choose for a priority: 1, 2, 3, or 0 for none
Band(p) ==
    IF p < PriorityLimit /\ p >= L1Floor THEN 1
    ELSE IF p < L1Floor /\ p >= L2Floor THEN 2
    ELSE IF p < L2Floor THEN 3
    ELSE 0

\* the queue aging re-inserts a thread into, p being its new priority
AgingBandOld(p) ==
    IF p - AgingStep >= L1Floor THEN 1 ELSE IF p - AgingStep >= L2Floor THEN 2 ELSE 3
AgingBand(p) == IF p >= L1Floor THEN 1 ELSE IF p >= L2Floor THEN 2 ELSE 3

\* iterThread->priority after a promotion
AgedPriorityNoCap(old) == old + AgingStep
AgedPriority(old) ==
    IF old + AgingStep > MaxPriority THEN MaxPriority ELSE old + AgingStep

\* a total that leaves out the time since ReadyStartTime
TotalNoWait(th, ticks) == th.TimeInReadyQueue

\* total = totalTicks - ReadyStartTime + TimeInReadyQueue: what aging weighs,
\* and what FindNextToRun leaves in TimeInReadyQueue
Total(th, ticks) == ticks - th.ReadyStartTime + th.TimeInReadyQueue

\* the condition under which aging promotes a thread
ShouldAge(th, ticks) ==
    (th.priority >= 0 /\ th.priority < PriorityLimit)
        /\ Total(th, ticks) >= AgingThreshold

\* kernel->alarm->preemptive after a thread it was re-inserted into L1
PreemptAfterL1Assign(flag, cur, it) ==
    cur.priority < L1Floor
        \/ (cur.priority >= L1Floor /\ cur.predictTime > it.predictTime)
PreemptAfterL1NoBand(flag, cur, it) ==
    IF cur.priority >= L1Floor /\ cur.predictTime > it.predictTime THEN TRUE
    ELSE flag
PreemptAfterL1(flag, cur, it) ==
    IF cur.priority < L1Floor THEN TRUE
    ELSE IF cur.priority >= L1Floor /\ cur.predictTime > it.predictTime THEN TRUE
    ELSE flag

\* kernel->alarm->preemptive after a thread was re-inserted into L2
PreemptAfterL2(flag, cur) == IF cur.priority < L2Floor THEN TRUE ELSE flag

\* kernel->alarm->preemptive after preemptL1 has looked at one L1 thread
PreemptL1StepLoose(flag, cur, it) ==
    IF cur.priority >= L1Floor /\ cur.predictTime >= it.predictTime THEN TRUE
    ELSE flag
PreemptL1Step(flag, cur, it) ==
    IF cur.priority >= L1Floor /\ cur.predictTime > it.predictTime THEN TRUE
    ELSE flag

(* ------------------------- the scheduler's state ------------------------ *)
\* The scheduler fields the loops of aging and preemptL1 work on, as a record,
\* so that a loop is a function from one such record to the next.
Kernel ==
    [thr |-> thr, L1 |-> L1, L2 |-> L2, L3 |-> L3, preemptive |-> preemptive,
     aborted |-> aborted, insOrd |-> insOrd, aged |-> {}]

QueueOf(k, i) == IF i = 1 THEN k.L1 ELSE IF i = 2 THEN k.L2 ELSE k.L3

\* the queue whose element holds thread t (a thread is in at most one element)
HolderOf(k, t) ==
    IF t \in Range(k.L1) THEN k.L1
    ELSE IF t \in Range(k.L2) THEN k.L2
    ELSE IF t \in Range(k.L3) THEN k.L3
    ELSE <<>>

\* a promotion that drops the waiting time left over after the threshold
PromoteForget(th, ticks) ==
    [th EXCEPT !.TimeInReadyQueue = 0,
               !.ReadyStartTime = ticks,
               !.priority = AgedPriority(th.priority)]

\* lines 122-124 of aging: the promoted thread's fields
Promote(th, ticks) ==
    [th EXCEPT !.TimeInReadyQueue = Total(th, ticks) - AgingThreshold,
               !.ReadyStartTime = ticks,
               !.priority = AgedPriority(th.priority)]

\* list->Remove(iterThread) of aging, list being queue number i
AgingRemove(k, i, t) ==
    IF i = 1 THEN [k EXCEPT !.L1 = RemoveItem(@, t)]
    ELSE IF i = 2 THEN [k EXCEPT !.L2 = RemoveItem(@, t)]
    ELSE [k EXCEPT !.L3 = RemoveItem(@, t)]

\* lines 127-149 of aging: re-insert the promoted thread into the queue of its
\* new priority and signal preemption
AgingReinsert(k, i, t) ==
    LET to == AgingBand(k.thr[t].priority)
        note == [k EXCEPT !.insOrd = Append(RemoveItem(@, t), t),
                          !.aged = @ \cup {[t |-> t, to |-> to,
                                            cp |-> k.thr[currentThread].priority,
                                            cb |-> k.thr[currentThread].predictTime]}]
    IN  IF to = 1
        THEN [note EXCEPT !.L1 = InsertL1(@, t, k.thr),
                          !.preemptive = PreemptAfterL1(@, k.thr[currentThread], k.thr[t])]
        ELSE IF to = 2
        THEN [note EXCEPT !.L2 = InsertL2(@, t, k.thr),
                          !.preemptive = PreemptAfterL2(@, k.thr[currentThread])]
        ELSE [note EXCEPT !.L3 = Append(@, t)]

\* The loop of aging(list), list being queue number i, with the iterator at the
\* element holding thread c (NULL: IsDone).  All the results it can have.
\* list->Remove deletes the element the iterator points at, so the iter->Next()
\* after a promotion reads freed memory: the element may still hold its old
\* next pointer, its memory may have been handed to the element the following
\* Insert/Append allocates (the iterator then walks on from the promoted
\* thread's new place), or the read is wild and the kernel dies.  A thread met
\* in another queue than `list` fails the ASSERT(IsInList(item)) of Remove,
\* after lines 122-124 have changed its fields.
RECURSIVE AgingLoop(_, _, _)
AgingLoop(k, i, c) ==
    IF c = NULL THEN {k}
    ELSE IF ~ShouldAge(k.thr[c], now) THEN AgingLoop(k, i, Succ(HolderOf(k, c), c))
    ELSE UNION {
           IF c \notin Range(QueueOf(k1, i)) THEN {[k1 EXCEPT !.aborted = TRUE]}
           ELSE UNION {
                  AgingLoop(k2, i, Succ(QueueOf(k1, i), c))
                      \cup AgingLoop(k2, i, Succ(HolderOf(k2, c), c))
                      \cup {[k2 EXCEPT !.aborted = TRUE]}
                  : k2 \in {AgingReinsert(AgingRemove(k1, i, c), i, c)}}
           : k1 \in {[k EXCEPT !.thr[c] = Promote(@, now)]}}

\* aging(list): the iterator starts at list->first
Aging(k, i) == IF k.aborted THEN {k} ELSE AgingLoop(k, i, First(QueueOf(k, i)))

\* agingCheck: aging(L1); aging(L2); aging(L3)
AgingCheckResults(k) ==
    UNION {UNION {Aging(k2, 3) : k2 \in Aging(k1, 2)} : k1 \in Aging(k, 1)}

\* preemptL1(L1): the iterator's walk from position n of L1 on
RECURSIVE PreemptL1Loop(_, _, _, _, _)
PreemptL1Loop(flag, q, th, cur, n) ==
    IF n > Len(q) THEN flag
    ELSE PreemptL1Loop(PreemptL1Step(flag, cur, th[q[n]]), q, th, cur, n + 1)

(* ============================ the file system =========================== *)
(* NachOS-4.0_MP4 filesys/filehdr.cc and filesys/filesys.cc, on a small disk: *)
(* the sizes below stand for SectorSize = 128, NumDirect = 30,               *)
(* NumSectors = 1024 and NumDirEntries = 64, and a directory entry counts as *)
(* one byte of its directory file.                                           *)
SectorSize == 2
NumDirect == 3
NumSectors == 32
NumDirEntries == 3

FreeMapSector == 0
DirectorySector == 1
BitsInByte == 8
NoSector == -1

Sectors == 0 .. NumSectors - 1

divRoundUp(n, s) == (n + s - 1) \div s
divRoundDown(n, s) == n \div s

\* the macros Level2, Level3, Level4 of filehdr.cc
Level2 == NumDirect * SectorSize
Level3 == NumDirect * NumDirect * SectorSize
Level4 == NumDirect * NumDirect * NumDirect * SectorSize

FreeMapFileSize == NumSectors \div BitsInByte
DirectoryFileSize == NumDirEntries

(* ------------------------------ the bitmap ------------------------------ *)
\* A bitmap is the set of its marked sectors.
NumClear(map) == NumSectors - Cardinality(map)

\* a FindAndSet that hands out the last sector, marked or not
FindLast(map) == NumSectors - 1

\* Bitmap::FindAndSet: the lowest clear bit, or -1
FindFree(map) ==
    IF Sectors \ map = {} THEN NoSector
    ELSE CHOOSE s \in Sectors \ map : \A u \in Sectors \ map : s <= u

(* ------------------------------ the disk -------------------------------- *)
\* A sector holds a file header, or SectorSize bytes of data, or is blank
\* (all zero).  A byte of data is a directory entry, a zero byte being an
\* entry that is not in use.
\* FileHeader::FileHeader: numBytes = numSectors = -1, every slot -1
NewHeader ==
    [numBytes |-> -1, numSectors |-> -1, dataSectors |-> [i \in 0 .. NumDirect - 1 |-> NoSector]]

ZeroHeader ==
    [numBytes |-> 0, numSectors |-> 0, dataSectors |-> [i \in 0 .. NumDirect - 1 |-> 0]]

Blank == [kind |-> "blank"]
HeaderSector(h) == [kind |-> "hdr", hdr |-> h]
DataSector(bytes) == [kind |-> "data", bytes |-> bytes]

BlankDisk == [s \in Sectors |-> Blank]

\* what a sector holds cannot be read as a header: a sector out of the disk
\* (the ASSERT of the disk's ReadSector fails) or one that holds data
BadHeaderSector(disk, s) == s \notin Sectors \/ disk[s].kind = "data"

\* FileHeader::FetchFrom(sector)
FetchHeader(disk, s) == IF disk[s].kind = "hdr" THEN disk[s].hdr ELSE ZeroHeader

(* ------------------------- FileHeader::Allocate ------------------------- *)
\* a bound that is Level2 for every indirect header
BoundLevel2(fileSize) == Level2

\* the bound Allocate and ByteToSector choose for an indirect header
BoundOf(fileSize) ==
    IF fileSize > Level4 THEN Level4 ELSE IF fileSize > Level3 THEN Level3 ELSE Level2

\* An allocation in progress: the in-memory bitmap, the disk (sub-headers are
\* written back at once), the header being filled, and whether an ASSERT failed.
AllocState(map, disk) == [map |-> map, disk |-> disk, hdr |-> NewHeader, crashed |-> FALSE, ok |-> TRUE]

RECURSIVE Allocate(_, _, _)
RECURSIVE AllocateIndirect(_, _, _, _)
RECURSIVE AllocateDirect(_, _)

\* the loop of the direct case: dataSectors[i] = freeMap->FindAndSet()
AllocateDirect(st, i) ==
    IF st.crashed \/ i >= st.hdr.numSectors THEN st
    ELSE LET s == FindFree(st.map)
         IN  IF s = NoSector \/ i >= NumDirect THEN [st EXCEPT !.crashed = TRUE]
             ELSE AllocateDirect([st EXCEPT !.map = @ \cup {s},
                                            !.hdr.dataSectors[i] = s], i + 1)

\* the loop of the indirect case, fileSize being what is left to allocate
AllocateIndirect(st, fileSize, bound, i) ==
    IF st.crashed \/ fileSize <= 0 THEN st
    ELSE LET s == FindFree(st.map)
         IN  IF s = NoSector \/ i >= NumDirect THEN [st EXCEPT !.crashed = TRUE]
             ELSE LET sub == Allocate(st.map \cup {s}, st.disk,
                                      IF fileSize > bound THEN bound ELSE fileSize)
                      next == [st EXCEPT !.map = sub.map,
                                         !.disk = [sub.disk EXCEPT ![s] = HeaderSector(sub.hdr)],
                                         !.hdr.dataSectors[i] = s,
                                         !.crashed = sub.crashed]
                  IN  IF sub.crashed THEN [st EXCEPT !.map = sub.map, !.disk = sub.disk,
                                                     !.crashed = TRUE]
                      ELSE AllocateIndirect(next, fileSize - bound, bound, i + 1)

\* Allocate without its test of freeMap->NumClear()
AllocateUnchecked(map, disk, fileSize) ==
    LET st == [AllocState(map, disk) EXCEPT
                   !.hdr.numBytes = fileSize,
                   !.hdr.numSectors = divRoundUp(fileSize, SectorSize)]
    IN  IF fileSize > Level2 THEN AllocateIndirect(st, fileSize, BoundOf(fileSize), 0)
        ELSE AllocateDirect(st, 0)

\* FileHeader::Allocate(freeMap, fileSize) on a fresh header.  The result of
\* a sub-header's Allocate is not looked at by its caller.
Allocate(map, disk, fileSize) ==
    LET st == [AllocState(map, disk) EXCEPT
                   !.hdr.numBytes = fileSize,
                   !.hdr.numSectors = divRoundUp(fileSize, SectorSize)]
    IN  IF NumClear(map) < st.hdr.numSectors THEN [st EXCEPT !.ok = FALSE]
        ELSE IF fileSize > Level2 THEN AllocateIndirect(st, fileSize, BoundOf(fileSize), 0)
        ELSE AllocateDirect(st, 0)

(* ------------------------ FileHeader::Deallocate ------------------------ *)
\* A deallocation in progress: the in-memory bitmap, whether an ASSERT failed
\* (of Deallocate, of the bitmap or of the disk), and whether a slot beyond
\* dataSectors[NumDirect - 1] was read.
RECURSIVE Deallocate(_, _, _)
RECURSIVE DeallocateIndirect(_, _, _, _, _)
RECURSIVE DeallocateDirect(_, _, _)

\* the loop of the direct case: ASSERT(freeMap->Test(s)); freeMap->Clear(s)
DeallocateDirect(st, hdr, i) ==
    IF st.crashed \/ i >= hdr.numSectors THEN st
    ELSE IF i >= NumDirect THEN [st EXCEPT !.crashed = TRUE, !.wild = TRUE]
    ELSE IF hdr.dataSectors[i] \notin st.map THEN [st EXCEPT !.crashed = TRUE]
    ELSE DeallocateDirect([st EXCEPT !.map = @ \ {hdr.dataSectors[i]}], hdr, i + 1)

\* the loop of the indirect case: subhdr->FetchFrom(dataSectors[i]);
\* subhdr->Deallocate(freeMap)
DeallocateIndirect(st, disk, hdr, round, i) ==
    IF st.crashed \/ i >= round THEN st
    ELSE IF i >= NumDirect THEN [st EXCEPT !.crashed = TRUE, !.wild = TRUE]
    ELSE IF BadHeaderSector(disk, hdr.dataSectors[i]) THEN [st EXCEPT !.crashed = TRUE]
    ELSE DeallocateIndirect(Deallocate(st, disk, FetchHeader(disk, hdr.dataSectors[i])),
                            disk, hdr, round, i + 1)

\* FileHeader::Deallocate(freeMap) of header hdr
Deallocate(st, disk, hdr) ==
    IF hdr.numBytes > Level2
    THEN DeallocateIndirect(st, disk, hdr, divRoundUp(hdr.numSectors, NumDirect), 0)
    ELSE DeallocateDirect(st, hdr, 0)

DeallocState(map) == [map |-> map, crashed |-> FALSE, wild |-> FALSE]

(* ----------------------- FileHeader::ByteToSector ----------------------- *)
\* FileHeader::ByteToSector(offset) of header hdr: the sector, or that the
\* sub-header could not be read
\* ByteToSector that reads every header as a direct one
ByteToSectorDirect(disk, hdr, offset) ==
    IF offset \div SectorSize >= NumDirect
    THEN [crashed |-> TRUE, sector |-> NoSector]
    ELSE [crashed |-> FALSE, sector |-> hdr.dataSectors[offset \div SectorSize]]

RECURSIVE ByteToSector(_, _, _)
ByteToSector(disk, hdr, offset) ==
    IF hdr.numBytes > Level2
    THEN LET nBytes == BoundOf(hdr.numBytes)
             which == divRoundDown(offset, nBytes)
             pos == offset % nBytes
         IN  IF which >= NumDirect \/ BadHeaderSector(disk, hdr.dataSectors[which])
             THEN [crashed |-> TRUE, sector |-> NoSector]
             ELSE ByteToSector(disk, FetchHeader(disk, hdr.dataSectors[which]), pos)
    ELSE IF offset \div SectorSize >= NumDirect
         THEN [crashed |-> TRUE, sector |-> NoSector]
         ELSE [crashed |-> FALSE, sector |-> hdr.dataSectors[offset \div SectorSize]]

\* FileHeader::FileLength
FileLength(hdr) == hdr.numBytes

(* ----------------------------- directories ------------------------------ *)
\* A directory table has NumDirEntries entries; entry k is byte k of the
\* directory file.  NoName is the NULL a finished strtok returns.
NoName == "NULL"

FreeEntry == [inUse |-> FALSE, isDirectory |-> FALSE, sector |-> 0, name |-> NoName]

\* Directory::Directory(NumDirEntries)
NewDirectory == [k \in 0 .. NumDirEntries - 1 |-> FreeEntry]

\* Directory::FindIndex(name): the first in-use entry of that name, or -1
FindIndex(table, name) ==
    LET hits == {k \in DOMAIN table : table[k].inUse /\ table[k].name = name}
    IN  IF hits = {} THEN -1 ELSE CHOOSE k \in hits : \A j \in hits : k <= j

\* Directory::Find(name): the sector of the entry's file header, or -1
Find(table, name) ==
    IF FindIndex(table, name) = -1 THEN NoSector ELSE table[FindIndex(table, name)].sector

\* Directory::isDirectory(name)
isDirectory(table, name) ==
    FindIndex(table, name) # -1 /\ table[FindIndex(table, name)].isDirectory

\* a name comparison with NULL is a read through a null pointer: it happens
\* when the scan meets an entry in use
NullCompared(table) == \E k \in DOMAIN table : table[k].inUse

\* the first entry not in use, or -1
FreeSlot(table) ==
    LET free == {k \in DOMAIN table : ~table[k].inUse}
    IN  IF free = {} THEN -1 ELSE CHOOSE k \in free : \A j \in free : k <= j

\* Directory::Add(name, sector, isDir) succeeds
CanAdd(table, name) == FindIndex(table, name) = -1 /\ FreeSlot(table) # -1

\* an Add that flags no entry as a directory
AddAsFile(table, name, sector, isDir) ==
    [table EXCEPT ![FreeSlot(table)] =
        [inUse |-> TRUE, isDirectory |-> FALSE, sector |-> sector, name |-> name]]

\* the table after a successful Directory::Add
Add(table, name, sector, isDir) ==
    [table EXCEPT ![FreeSlot(table)] =
        [inUse |-> TRUE, isDirectory |-> isDir, sector |-> sector, name |-> name]]

\* the table after Directory::Remove(name)
RemoveEntry(table, name) ==
    IF FindIndex(table, name) = -1 THEN table
    ELSE [table EXCEPT ![FindIndex(table, name)].inUse = FALSE]

\* the byte at offset k of a file, read as a directory entry, b being what
\* ByteToSector gave for it.  The read crashes when the sector is not on the
\* disk; the bytes of a sector that holds a file header are no entry of this
\* model (garbled).
EntryAt(disk, b, k) ==
    IF b.crashed \/ b.sector \notin Sectors
    THEN [crashed |-> TRUE, garbled |-> FALSE, entry |-> FreeEntry]
    ELSE IF disk[b.sector].kind = "hdr"
    THEN [crashed |-> TRUE, garbled |-> TRUE, entry |-> FreeEntry]
    ELSE IF disk[b.sector].kind = "blank"
    THEN [crashed |-> FALSE, garbled |-> FALSE, entry |-> FreeEntry]
    ELSE [crashed |-> FALSE, garbled |-> FALSE,
          entry |-> disk[b.sector].bytes[k % SectorSize]]

ByteAt(disk, hdr, k) == EntryAt(disk, ByteToSector(disk, hdr, k), k)

\* the file's bytes that OpenFile::ReadAt and WriteAt reach from position 0
\* when asked for a whole directory table
Reached(hdr) ==
    0 .. (IF FileLength(hdr) < DirectoryFileSize THEN FileLength(hdr)
          ELSE DirectoryFileSize) - 1

\* the table after the bytes read have been laid over it
TableRead(bytes, table) ==
    [crashed |-> \E k \in DOMAIN bytes : bytes[k].crashed,
     garbled |-> \E k \in DOMAIN bytes : bytes[k].garbled,
     table |-> [k \in DOMAIN table |->
                   IF k \in DOMAIN bytes THEN bytes[k].entry ELSE table[k]]]

\* Directory::FetchFrom(file) into a table that holds `table`: the entries the
\* file is long enough for are read, the others stay
ReadTable(disk, hdr, table) ==
    TableRead([k \in Reached(hdr) |-> ByteAt(disk, hdr, k)], table)

\* one sector after the bytes of `table` that fall into it have been written,
\* where[k] being the sector of byte k
WrittenSector(old, where, table, s) ==
    DataSector([j \in 0 .. SectorSize - 1 |->
        IF \E k \in DOMAIN where : where[k].sector = s /\ k % SectorSize = j
        THEN table[CHOOSE k \in DOMAIN where : where[k].sector = s /\ k % SectorSize = j]
        ELSE IF old.kind = "data" THEN old.bytes[j] ELSE FreeEntry])

TableWritten(disk, where, table) ==
    IF \E k \in DOMAIN where : where[k].crashed \/ where[k].sector \notin Sectors
    THEN [crashed |-> TRUE, disk |-> disk]
    ELSE [crashed |-> FALSE,
          disk |-> [s \in Sectors |->
                       IF \E k \in DOMAIN where : where[k].sector = s
                       THEN WrittenSector(disk[s], where, table, s)
                       ELSE disk[s]]]

\* Directory::WriteBack(file): the disk afterwards
WriteTable(disk, hdr, table) ==
    TableWritten(disk, [k \in Reached(hdr) |-> ByteToSector(disk, hdr, k)], table)

(* --------------------------- the file system ---------------------------- *)
\* What is on the disk: the bitmap file's contents (the persisted free map)
\* and the sectors.
Persisted(map, disk) == [freeMap |-> map, disk |-> disk]

\* the outcome of a call: what is on the disk afterwards, what the call
\* returned, whether the kernel died in it (an ASSERT, a null or wild
\* pointer), and whether it read bytes this model gives no meaning to
Outcome(map, disk, result) ==
    [freeMap |-> map, disk |-> disk, result |-> result, crashed |-> FALSE, wild |-> FALSE]

Crash(map, disk) ==
    [freeMap |-> map, disk |-> disk, result |-> NoSector, crashed |-> TRUE, wild |-> FALSE]

\* the kernel dies before the call has written anything
CrashIn(p, wild) ==
    [freeMap |-> p.freeMap, disk |-> p.disk, result |-> NoSector, crashed |-> TRUE,
     wild |-> wild]

\* hdr->WriteBack(sector)
HeaderWritten(disk, sector, hdr) == [disk EXCEPT ![sector] = HeaderSector(hdr)]

\* FileSystem::FileSystem(format = TRUE)
FormatDirectory(dirHdr, disk1) ==
    Persisted(dirHdr.map, WriteTable(disk1, dirHdr.hdr, NewDirectory).disk)

FormatHeaders(mapHdr, dirHdr) ==
    FormatDirectory(dirHdr, HeaderWritten(HeaderWritten(dirHdr.disk, FreeMapSector, mapHdr.hdr),
                                          DirectorySector, dirHdr.hdr))

FormatMap(mapHdr) ==
    FormatHeaders(mapHdr, Allocate(mapHdr.map, mapHdr.disk, DirectoryFileSize))

Formatted ==
    FormatMap(Allocate({FreeMapSector, DirectorySector}, BlankDisk, FreeMapFileSize))

\* the root directory as Directory::FetchFrom(directoryFile) reads it
RootTable(disk) == ReadTable(disk, FetchHeader(disk, DirectorySector), NewDirectory)

\* A path walk in progress: the table in `directory`, the header sector of
\* directoryObj and of prevdirectoryObj, the index of tmpName in the path
\* (beyond its end: NULL), the last result of Find, and isFile.
WalkFrom(r) ==
    [table |-> r.table, obj |-> DirectorySector, prev |-> DirectorySector,
     i |-> 1, sector |-> NoSector, isFile |-> FALSE,
     crashed |-> r.crashed, garbled |-> r.garbled]

StartWalk(disk) == WalkFrom(RootTable(disk))

\* tmpName after the walk of Create
NameAt(path, i) == IF i <= Len(path) THEN path[i] ELSE NoName

\* the name CreateAdirectory, Remove and RecursiveRemove carry out of their
\* walk: the component the walk stopped at, or the last one
LastName(path, i) == IF i > Len(path) THEN path[Len(path)] ELSE path[i]

\* new OpenFile(sector); directory->FetchFrom(directoryObj)
WalkedInto(w, s, r) ==
    [w EXCEPT !.table = r.table, !.prev = w.obj, !.obj = s, !.i = @ + 1,
              !.sector = s, !.crashed = r.crashed, !.garbled = r.garbled]

WalkInto(disk, w, s) ==
    IF BadHeaderSector(disk, s) THEN [w EXCEPT !.crashed = TRUE]
    ELSE WalkedInto(w, s, ReadTable(disk, FetchHeader(disk, s), w.table))

\* the walk of Create, CreateAdirectory and OpenAFile: it follows every
\* component that is found, file or directory, and stops at the first that is not
RECURSIVE WalkFound(_, _, _)
WalkFound(disk, path, w) ==
    IF w.crashed \/ w.i > Len(path) THEN w
    ELSE IF Find(w.table, path[w.i]) = NoSector THEN [w EXCEPT !.sector = NoSector]
    ELSE WalkFound(disk, path, WalkInto(disk, w, Find(w.table, path[w.i])))

\* the end of Create and CreateAdirectory: directory->WriteBack(directoryObj),
\* freeMap->WriteBack(freeMapFile)
CreateWritten(p, map, disk1, wr) ==
    IF wr.crashed THEN Crash(p.freeMap, disk1) ELSE Outcome(map, wr.disk, TRUE)

\* hdr->WriteBack(sector), then the directory
CreateHeader(p, obj, table, map, disk1) ==
    CreateWritten(p, map, disk1, WriteTable(disk1, FetchHeader(disk1, obj), table))

\* hdr->Allocate(freeMap, initialSize) has run
CreateAllocated(p, obj, table, sector, a) ==
    IF ~a.ok THEN Outcome(p.freeMap, p.disk, FALSE)
    ELSE IF a.crashed THEN Crash(p.freeMap, a.disk)
    ELSE CreateHeader(p, obj, table, a.map, HeaderWritten(a.disk, sector, a.hdr))

\* the body of Create once the walk is over.  A NULL tmpName is read through
\* by the strncmp of Find or the strncpy of Add.
CreateNamed(p, w, tmpName, sector, initialSize) ==
    IF tmpName = NoName /\ NullCompared(w.table) THEN Crash(p.freeMap, p.disk)
    ELSE IF Find(w.table, tmpName) # NoSector THEN Outcome(p.freeMap, p.disk, FALSE)
    ELSE IF sector = NoSector THEN Outcome(p.freeMap, p.disk, FALSE)
    ELSE IF tmpName = NoName THEN Crash(p.freeMap, p.disk)
    ELSE IF ~CanAdd(w.table, tmpName) THEN Outcome(p.freeMap, p.disk, FALSE)
    ELSE CreateAllocated(p, w.obj, Add(w.table, tmpName, sector, FALSE), sector,
                         Allocate(p.freeMap \cup {sector}, p.disk, initialSize))

CreateWalked(p, w, path, initialSize) ==
    IF w.crashed THEN CrashIn(p, w.garbled)
    ELSE CreateNamed(p, w, NameAt(path, w.i), FindFree(p.freeMap), initialSize)

\* FileSystem::Create(name, initialSize)
CreateOutcome(p, path, initialSize) ==
    CreateWalked(p, WalkFound(p.disk, path, StartWalk(p.disk)), path, initialSize)

\* CreateAdirectory: subDirectory->WriteBack(subDirectoryFile) has run
SubDirectoryWritten(p, obj, table, map, disk1, sub) ==
    IF sub.crashed THEN Crash(p.freeMap, disk1)
    ELSE CreateHeader(p, obj, table, map, sub.disk)

\* CreateAdirectory: hdr->Allocate(freeMap, DirectoryFileSize) has run
SubDirectoryHeader(p, obj, table, a, disk1) ==
    SubDirectoryWritten(p, obj, table, a.map, disk1, WriteTable(disk1, a.hdr, NewDirectory))

SubDirectoryAllocated(p, obj, table, sector, a) ==
    IF ~a.ok THEN Outcome(p.freeMap, p.disk, FALSE)
    ELSE IF a.crashed THEN Crash(p.freeMap, a.disk)
    ELSE SubDirectoryHeader(p, obj, table, a, HeaderWritten(a.disk, sector, a.hdr))

\* the body of CreateAdirectory once the walk is over
CreateAdirectoryNamed(p, w, Name, sector) ==
    IF Find(w.table, Name) # NoSector THEN Outcome(p.freeMap, p.disk, FALSE)
    ELSE IF sector = NoSector \/ ~CanAdd(w.table, Name)
    THEN Outcome(p.freeMap, p.disk, FALSE)
    ELSE SubDirectoryAllocated(p, w.obj, Add(w.table, Name, sector, TRUE), sector,
                               Allocate(p.freeMap \cup {sector}, p.disk, DirectoryFileSize))

CreateAdirectoryWalked(p, w, path) ==
    IF w.crashed THEN CrashIn(p, w.garbled)
    ELSE CreateAdirectoryNamed(p, w, LastName(path, w.i), FindFree(p.freeMap))

\* FileSystem::CreateAdirectory(name) up to the delete of subDirectoryFile.
\* When the whole path is found, the name looked up and added is its last
\* component, in the table of the entry that component names.
CreateAdirectoryOutcome(p, path) ==
    CreateAdirectoryWalked(p, WalkFound(p.disk, path, StartWalk(p.disk)), path)

\* subDirectoryFile is assigned only when the directory is made, and is
\* deleted on every path: where the call fails, the delete is of an
\* uninitialized pointer, which goes unnoticed or kills the kernel.
DeleteSubDirectoryFile(o) ==
    IF ~o.crashed /\ o.result = FALSE THEN {o, Crash(o.freeMap, o.disk)} ELSE {o}

\* FileSystem::CreateAdirectory(name): all it can come to
CreateAdirectoryOutcomes(p, path) == DeleteSubDirectoryFile(CreateAdirectoryOutcome(p, path))

\* the walk of FileSystem::Open: directory->FetchFrom(directoryObj), then
\* Find(tmpName), for every component that is found
RECURSIVE WalkOpen(_, _, _)
RECURSIVE WalkOpenFound(_, _, _, _, _)
RECURSIVE WalkOpenRead(_, _, _, _)

WalkOpenFound(disk, path, w, table, s) ==
    IF s = NoSector THEN [w EXCEPT !.table = table, !.sector = NoSector]
    ELSE IF BadHeaderSector(disk, s) THEN [w EXCEPT !.crashed = TRUE]
    ELSE WalkOpen(disk, path, [w EXCEPT !.table = table, !.obj = s, !.i = @ + 1,
                                        !.sector = s])

WalkOpenRead(disk, path, w, r) ==
    IF r.crashed THEN [w EXCEPT !.crashed = TRUE, !.garbled = r.garbled]
    ELSE WalkOpenFound(disk, path, w, r.table, Find(r.table, path[w.i]))

WalkOpen(disk, path, w) ==
    IF w.crashed \/ w.i > Len(path) THEN w
    ELSE WalkOpenRead(disk, path, w, ReadTable(disk, FetchHeader(disk, w.obj), w.table))

OpenWalked(p, w) ==
    IF w.crashed THEN CrashIn(p, w.garbled) ELSE Outcome(p.freeMap, p.disk, w.obj)

\* FileSystem::Open(name): the header sector of the file the returned OpenFile
\* is a handle to (NoSector would be the NULL of "not found")
OpenOutcome(p, path) ==
    OpenWalked(p, WalkOpen(p.disk, path,
                           WalkFrom([table |-> NewDirectory, crashed |-> FALSE,
                                     garbled |-> FALSE])))

\* the walk of Remove and RecursiveRemove: it follows the components that are
\* found and are directories, and stops at the first that is not
RECURSIVE WalkDirs(_, _, _)
WalkDirs(disk, path, w) ==
    IF w.crashed \/ w.i > Len(path) THEN w
    ELSE IF Find(w.table, path[w.i]) = NoSector \/ ~isDirectory(w.table, path[w.i])
    THEN [w EXCEPT !.sector = Find(w.table, path[w.i]), !.isFile = TRUE]
    ELSE WalkDirs(disk, path, WalkInto(disk, w, Find(w.table, path[w.i])))

\* Remove: freeMap->WriteBack, directory->WriteBack have run
RemoveWritten(p, map, wr) ==
    IF wr.crashed THEN Crash(map, p.disk) ELSE Outcome(map, wr.disk, TRUE)

\* Remove: fileHdr->Deallocate(freeMap) has run; freeMap->Clear(sector),
\* directory->Remove(tmpName)
RemoveFreed(p, sector, d, fromHdr, table) ==
    IF d.crashed THEN CrashIn(p, d.wild)
    ELSE RemoveWritten(p, d.map \ {sector}, WriteTable(p.disk, fromHdr, table))

\* Remove: sector = directory->Find(tmpName); fileHdr->FetchFrom(sector)
RemoveSector(p, tmpName, fromHdr, table, sector) ==
    IF BadHeaderSector(p.disk, sector) THEN Crash(p.freeMap, p.disk)
    ELSE RemoveFreed(p, sector,
                     Deallocate(DeallocState(p.freeMap), p.disk, FetchHeader(p.disk, sector)),
                     fromHdr, RemoveEntry(table, tmpName))

\* Remove: directory->FetchFrom of the directory the entry is taken from
RemoveRead(p, tmpName, fromHdr, r) ==
    IF r.crashed THEN CrashIn(p, r.garbled)
    ELSE RemoveSector(p, tmpName, fromHdr, r.table, Find(r.table, tmpName))

RemoveFrom(p, tmpName, fromHdr, table) ==
    RemoveRead(p, tmpName, fromHdr, ReadTable(p.disk, fromHdr, table))

\* the body of Remove once the walk is over: the entry is taken from
\* directoryObj when the walk stopped at a file, else from prevdirectoryObj
RemoveWalked(p, path, w) ==
    IF w.crashed THEN CrashIn(p, w.garbled)
    ELSE IF w.sector = NoSector THEN Outcome(p.freeMap, p.disk, FALSE)
    ELSE RemoveFrom(p, LastName(path, w.i),
                    FetchHeader(p.disk, IF w.isFile THEN w.obj ELSE w.prev), w.table)

\* FileSystem::Remove(name)
RemoveOutcome(p, path) == RemoveWalked(p, path, WalkDirs(p.disk, path, StartWalk(p.disk)))

\* FileSystem::RecursiveRemove(name).  After the walk `directory` holds the
\* table of the last directory walked into; when the whole path is found
\* that is the named directory itself, and isDirectory(tmpName) looks the
\* directory's own name up in it.
RECURSIVE RecursiveRemoveOutcome(_, _)
RECURSIVE RecursiveRemoveEntries(_, _, _, _)
RECURSIVE RecursiveRemoveWalked(_, _, _)

\* RecursiveRemove returns TRUE whatever its calls of Remove returned
Returned(o) == IF o.crashed THEN o ELSE [o EXCEPT !.result = TRUE]

\* the loop over directoryTable, from entry k on; o is the outcome so far
RecursiveRemoveEntries(o, path, table, k) ==
    IF o.crashed \/ k >= NumDirEntries THEN o
    ELSE IF ~table[k].inUse THEN RecursiveRemoveEntries(o, path, table, k + 1)
    ELSE IF table[k].isDirectory
    THEN RecursiveRemoveEntries(
             RecursiveRemoveOutcome(Persisted(o.freeMap, o.disk), Append(path, table[k].name)),
             path, table, k + 1)
    ELSE RecursiveRemoveEntries(
             RemoveOutcome(Persisted(o.freeMap, o.disk), Append(path, table[k].name)),
             path, table, k + 1)

\* Remove(current) after the loop
RecursiveRemoveLast(path, inner) ==
    IF inner.crashed THEN inner
    ELSE Returned(RemoveOutcome(Persisted(inner.freeMap, inner.disk), path))

RecursiveRemoveWalked(p, path, w) ==
    IF w.crashed THEN CrashIn(p, w.garbled)
    ELSE IF isDirectory(w.table, LastName(path, w.i))
    THEN RecursiveRemoveLast(path,
             RecursiveRemoveEntries(Outcome(p.freeMap, p.disk, TRUE), path, w.table, 0))
    ELSE Returned(RemoveOutcome(p, path))

RecursiveRemoveOutcome(p, path) ==
    RecursiveRemoveWalked(p, path, WalkDirs(p.disk, path, StartWalk(p.disk)))

(* --------------------------- the system calls --------------------------- *)
\* The kernel's one open-file slot, FileSystem::fileDescriptor, holds NULL or
\* an OpenFile: the header sector it was opened on, the header read from that
\* sector at open, and the seek position.  FileSystem::FileSystem assigns
\* freeMapFile and directoryFile and never fileDescriptor: until the first
\* assignment the slot is indeterminate, and a test of it finds NULL or
\* something else (a wild pointer).
\* a slot without an OpenFile, state being "NULL", "indeterminate" or "wild"
NoFile(state) == [state |-> state, sector |-> NoSector, hdr |-> NewHeader, seekPosition |-> 0]

\* OpenFile::OpenFile(sector)
OpenFile(disk, sector) ==
    [state |-> "open", sector |-> sector, hdr |-> FetchHeader(disk, sector), seekPosition |-> 0]

\* what a test of the slot may find in it
Held(slot) ==
    IF slot.state = "indeterminate" THEN {NoFile("NULL"), NoFile("wild")} ELSE {slot}

\* the outcome of a system call: the disk and the slot afterwards, what the
\* call returned, and whether the kernel died in it
Sys(disk, slot, result) ==
    [disk |-> disk, fileDescriptor |-> slot, result |-> result, crashed |-> FALSE]

SysCrash(disk, slot) == [Sys(disk, slot, NoSector) EXCEPT !.crashed = TRUE]

\* a call through a wild pointer: the kernel dies, or the call returns
\* whatever it found
Wild(disk, results) ==
    {SysCrash(disk, NoFile("wild"))} \cup {Sys(disk, NoFile("wild"), r) : r \in results}

\* the loop of FileSystem::OpenAFile: Find(tmpName) in `directory`, and for a
\* name that is found, FetchFrom its file and step to the next name
RECURSIVE WalkOpenAFile(_, _, _)
RECURSIVE WalkOpenAFileFound(_, _, _, _)

WalkOpenAFileFound(disk, path, w, r) ==
    IF r.crashed THEN [w EXCEPT !.crashed = TRUE]
    ELSE WalkOpenAFile(disk, path, [w EXCEPT !.table = r.table, !.i = @ + 1])

WalkOpenAFile(disk, path, w) ==
    IF w.crashed \/ w.i > Len(path) THEN w
    ELSE IF Find(w.table, path[w.i]) = NoSector THEN w
    ELSE IF BadHeaderSector(disk, Find(w.table, path[w.i])) THEN [w EXCEPT !.crashed = TRUE]
    ELSE WalkOpenAFileFound(disk, path, w,
             ReadTable(disk, FetchHeader(disk, Find(w.table, path[w.i])), w.table))

\* after the loop: sector = directory->Find(tmpName), and a new OpenFile on
\* it when it is >= 0
OpenAFileSector(disk, slot, sector) ==
    IF sector >= 0
    THEN IF BadHeaderSector(disk, sector) THEN SysCrash(disk, slot)
         ELSE Sys(disk, OpenFile(disk, sector), sector)
    ELSE Sys(disk, slot, -1)

\* directory->FetchFrom(directoryFile) after the loop, r being what it read
OpenAFileRoot(disk, slot, path, w, r) ==
    IF w.crashed \/ r.crashed THEN SysCrash(disk, slot)
    ELSE IF w.i > Len(path)
    THEN IF NullCompared(r.table) THEN SysCrash(disk, slot) ELSE Sys(disk, slot, -1)
    ELSE OpenAFileSector(disk, slot, Find(r.table, path[w.i]))

\* FileSystem::OpenAFile(name) after the loop has left w
OpenAFileWalked(disk, slot, path, w) ==
    OpenAFileRoot(disk, slot, path, w,
                  ReadTable(disk, FetchHeader(disk, DirectorySector), w.table))

\* FileSystem::OpenAFile(name): `directory` is a new, empty Directory when
\* the loop starts
OpenAFileOutcome(disk, slot, path) ==
    OpenAFileWalked(disk, slot, path,
                    WalkOpenAFile(disk, path,
                                  [table |-> NewDirectory, i |-> 1, crashed |-> FALSE]))

\* OpenFile::ReadAt and WriteAt cut the request down to what the file has
\* left after the seek position
Clipped(file, numBytes) ==
    IF numBytes <= 0 \/ file.seekPosition >= FileLength(file.hdr) THEN 0
    ELSE IF file.seekPosition + numBytes > FileLength(file.hdr)
    THEN FileLength(file.hdr) - file.seekPosition
    ELSE numBytes

\* the sectors of the n bytes at the seek position
Touched(disk, file, n) ==
    [k \in file.seekPosition .. file.seekPosition + n - 1 |-> ByteToSector(disk, file.hdr, k)]

\* OpenFile::Read(into, numBytes) of n bytes found in the sectors `where`
ReadFrom(disk, file, n, where) ==
    IF \E k \in DOMAIN where : where[k].crashed \/ where[k].sector \notin Sectors
    THEN SysCrash(disk, file)
    ELSE Sys(disk, [file EXCEPT !.seekPosition = @ + n], n)

\* OpenFile::Write(from, numBytes) of n bytes, w being the disk written
WriteTo(disk, file, n, w) ==
    IF w.crashed THEN SysCrash(disk, file)
    ELSE Sys(w.disk, [file EXCEPT !.seekPosition = @ + n], n)

\* FileSystem::ReadFile(buffer, size, id) when the slot holds `file`
ReadFileOf(disk, file, size, id) ==
    IF size >= 0 /\ file.state # "NULL"
    THEN IF file.state = "wild" THEN Wild(disk, -1 .. size)
         ELSE {ReadFrom(disk, file, Clipped(file, size),
                        Touched(disk, file, Clipped(file, size)))}
    ELSE {Sys(disk, file, -1)}

\* FileSystem::WriteFile(buffer, size, id) when the slot holds `file`, every
\* byte of the buffer being `byte`
WriteFileOf(disk, file, byte, size, id) ==
    IF size >= 0 /\ file.state # "NULL"
    THEN IF file.state = "wild" THEN Wild(disk, -1 .. size)
         ELSE {WriteTo(disk, file, Clipped(file, size),
                       TableWritten(disk, Touched(disk, file, Clipped(file, size)),
                                    [k \in DOMAIN Touched(disk, file, Clipped(file, size)) |-> byte]))}
    ELSE {Sys(disk, file, -1)}

\* CloseFile that returns 1 and leaves the handle in the slot
CloseFileKept(disk, file, id) ==
    IF file.state # "NULL" THEN {Sys(disk, file, 1)} ELSE {Sys(disk, file, -1)}

\* FileSystem::CloseFile(id) when the slot holds `file`
CloseFileOf(disk, file, id) ==
    IF file.state # "NULL"
    THEN IF file.state = "wild" THEN {SysCrash(disk, file), Sys(disk, NoFile("NULL"), 1)}
         ELSE {Sys(disk, NoFile("NULL"), 1)}
    ELSE {Sys(disk, file, -1)}

(* ------------------------- the calls and their state -------------------- *)
\* the names the paths are made of
Names == {"a", "b"}

\* the paths the calls are given: one to MaxDepth names
Paths == UNION {[1 .. n -> Names] : n \in 1 .. MaxDepth}

\* the sizes files are created with: empty, direct, and one and two levels
\* of sub-headers
FileSizes == {0, SectorSize + 1, Level2 + 1, Level3 + 1, 2 * Level3}

\* the state a call leaves: its outcome and, as history, the call, the free
\* map that was on the disk before it, and whether every Create,
\* CreateAdirectory, Remove and RecursiveRemove so far has returned TRUE
After(o, call, path, size) ==
    [freeMap |-> o.freeMap, disk |-> o.disk, result |-> o.result,
     crashed |-> o.crashed, wild |-> o.wild,
     op |-> call, path |-> path, size |-> size,
     beforeMap |-> fs.freeMap, calls |-> fs.calls + 1, hdr |-> fs.hdr,
     fileDescriptor |-> fs.fileDescriptor, syscalls |-> fs.syscalls,
     closed |-> fs.closed, closedSector |-> fs.closedSector,
     succeeded |-> fs.succeeded /\ ~o.crashed /\ (call = "Open" \/ o.result = TRUE)]

FsInit ==
    fs = [freeMap |-> Formatted.freeMap, disk |-> Formatted.disk, result |-> TRUE,
          crashed |-> FALSE, wild |-> FALSE,
          op |-> "Format", path |-> <<>>, size |-> 0,
          beforeMap |-> {}, calls |-> 0, hdr |-> NewHeader,
          fileDescriptor |-> NoFile("indeterminate"), syscalls |-> 0,
          closed |-> FALSE, closedSector |-> NoSector, succeeded |-> TRUE]

\* the kernel is alive and may make another call
FsCallable == ~fs.crashed /\ fs.calls < MaxCalls


(* ------------------------------ the state ------------------------------- *)
\* Scheduler::Scheduler leaves the three queues empty and toBeDestroyed NULL.
\* Thread 1 is the main thread, running when the scheduler is constructed,
\* with the lowest of the priorities and a zero burst estimate; the other
\* threads have been created, with any priority and estimate, and not forked.
NewThread(st, p, b) ==
    [status |-> st, priority |-> p, predictTime |-> b,
     ReadyStartTime |-> 0, TimeInReadyQueue |-> 0]

MainPriority == CHOOSE p \in InitPriorities : \A q \in InitPriorities : p <= q

Init ==
    /\ thr \in {f \in [Threads -> {NewThread(st, p, b) :
                        st \in {"RUNNING", "JUST_CREATED"},
                        p \in InitPriorities, b \in PredictTimes}] :
                   /\ f[1] = NewThread("RUNNING", MainPriority, 0)
                   /\ \A t \in Threads \ {1} : f[t].status = "JUST_CREATED"}
    /\ L1 = <<>> /\ L2 = <<>> /\ L3 = <<>>
    /\ now = 0
    /\ currentThread = 1
    /\ preemptive = FALSE
    /\ nextThread = NULL
    /\ toBeDestroyed = NULL
    /\ switching = FALSE
    /\ aborted = FALSE
    /\ op = "Scheduler"
    /\ insOrd = <<>>
    /\ aged = {}
    /\ dispatches = 0
    /\ FsInit

\* interrupts are off and the kernel is alive: a scheduler routine may start
Callable == ~aborted /\ ~switching

(* ---------------------------- the operations ---------------------------- *)
\* Scheduler::ReadyToRun(thread).  Called for a forked or woken thread, and by
\* a yielding thread for itself once FindNextToRun has found its successor.
ReadyToRun(t) ==
    /\ Callable
    /\ UNCHANGED fs
    /\ \/ nextThread = NULL /\ thr[t].status \in {"JUST_CREATED", "BLOCKED"}
       \/ nextThread # NULL /\ t = currentThread /\ thr[t].status = "RUNNING"
    /\ thr' = [thr EXCEPT ![t].status = "READY", ![t].ReadyStartTime = now]
    /\ L1' = IF Band(thr[t].priority) = 1 THEN InsertL1(L1, t, thr) ELSE L1
    /\ L2' = IF Band(thr[t].priority) = 2 THEN InsertL2(L2, t, thr) ELSE L2
    /\ L3' = IF Band(thr[t].priority) = 3 THEN Append(L3, t) ELSE L3
    /\ op' = "ReadyToRun"
    /\ insOrd' = Append(insOrd, t)
    /\ aged' = {}
    /\ UNCHANGED <<now, currentThread, preemptive, nextThread, toBeDestroyed,
                   switching, aborted, dispatches>>

\* the queue FindNextToRun takes its thread from: 1, 2, 3, or 0 when all are empty
ChosenQueueL2First ==
    IF L2 # <<>> THEN 2 ELSE IF L1 # <<>> THEN 1 ELSE IF L3 # <<>> THEN 3 ELSE 0
ChosenQueue ==
    IF L1 # <<>> THEN 1 ELSE IF L2 # <<>> THEN 2 ELSE IF L3 # <<>> THEN 3 ELSE 0

\* Scheduler::FindNextToRun(), in a run of the kernel that hands out at most
\* `limit` threads
FindNextToRunWithin(limit) ==
    /\ Callable
    /\ UNCHANGED fs
    /\ nextThread = NULL
    /\ dispatches < limit
    /\ LET q == ChosenQueue
           t == IF q = 0 THEN NULL ELSE Head(QueueOf(Kernel, q))
       IN  /\ nextThread' = t
           /\ L1' = IF q = 1 THEN Tail(L1) ELSE L1
           /\ L2' = IF q = 2 THEN Tail(L2) ELSE L2
           /\ L3' = IF q = 3 THEN Tail(L3) ELSE L3
           /\ thr' = IF t = NULL THEN thr
                     ELSE [thr EXCEPT ![t].TimeInReadyQueue = Total(thr[t], now)]
           /\ op' = "FindNextToRun"
           /\ insOrd' = RemoveItem(insOrd, t)
           /\ dispatches' = IF t = NULL THEN dispatches ELSE dispatches + 1
    /\ aged' = {}
    /\ UNCHANGED <<now, currentThread, preemptive, toBeDestroyed, switching, aborted>>

FindNextToRun == FindNextToRunWithin(MaxDispatches)

\* kernel->currentThread after Run(nextThread, finishing), oldThread being the
\* thread that called it
CurrentAfterRunKept(oldThread, next) == oldThread
CurrentAfterRun(oldThread, next) == next

\* Scheduler::Run(nextThread, finishing) up to SWITCH.  The caller has already
\* made the old thread ready or blocked, or, when finishing, finished.
Run(finishing) ==
    /\ Callable
    /\ UNCHANGED fs
    /\ nextThread # NULL
    /\ IF finishing
       THEN thr[currentThread].status = "FINISHED"
       ELSE thr[currentThread].status \in {"READY", "BLOCKED"}
    /\ IF finishing /\ toBeDestroyed # NULL
       THEN /\ aborted' = TRUE
            /\ UNCHANGED <<thr, currentThread, nextThread, toBeDestroyed, switching>>
       ELSE /\ toBeDestroyed' = IF finishing THEN currentThread ELSE toBeDestroyed
            /\ currentThread' = CurrentAfterRun(currentThread, nextThread)
            /\ thr' = [thr EXCEPT ![nextThread].status = "RUNNING"]
            /\ nextThread' = NULL
            /\ switching' = TRUE
            /\ UNCHANGED aborted
    /\ op' = "Run"
    /\ aged' = {}
    /\ UNCHANGED <<L1, L2, L3, now, preemptive, insOrd, dispatches>>

\* toBeDestroyed after CheckToBeDestroyed
AfterReapKept(slot) == slot
AfterReap(slot) == NULL

\* The code after SWITCH, run by the thread switched to: CheckToBeDestroyed
\* deletes the thread that finished.
AfterSwitch ==
    /\ ~aborted
    /\ switching
    /\ UNCHANGED fs
    /\ switching' = FALSE
    /\ toBeDestroyed' = AfterReap(toBeDestroyed)
    /\ thr' = IF toBeDestroyed = NULL THEN thr
              ELSE [thr EXCEPT ![toBeDestroyed].status = "DELETED"]
    /\ op' = "CheckToBeDestroyed"
    /\ aged' = {}
    /\ UNCHANGED <<L1, L2, L3, now, currentThread, preemptive, nextThread,
                   aborted, insOrd, dispatches>>

\* Scheduler::agingCheck()
AgingCheck ==
    /\ Callable
    /\ UNCHANGED fs
    /\ nextThread = NULL
    /\ \E k \in AgingCheckResults(Kernel) :
           /\ thr' = k.thr
           /\ L1' = k.L1 /\ L2' = k.L2 /\ L3' = k.L3
           /\ preemptive' = k.preemptive
           /\ aborted' = k.aborted
           /\ insOrd' = k.insOrd
           /\ aged' = k.aged
    /\ op' = "agingCheck"
    /\ UNCHANGED <<now, currentThread, nextThread, toBeDestroyed, switching, dispatches>>

\* Scheduler::doPreemptL1()
DoPreemptL1 ==
    /\ Callable
    /\ UNCHANGED fs
    /\ nextThread = NULL
    /\ preemptive' = PreemptL1Loop(preemptive, L1, thr, thr[currentThread], 1)
    /\ op' = "doPreemptL1"
    /\ aged' = {}
    /\ UNCHANGED <<thr, L1, L2, L3, now, currentThread, nextThread, toBeDestroyed,
                   switching, aborted, insOrd, dispatches>>

(* --------------------------- the collaborators -------------------------- *)
\* Thread::Sleep: the running thread blocks; it then dispatches its successor
\* with FindNextToRun and Run.
Sleep ==
    /\ Callable
    /\ UNCHANGED fs
    /\ nextThread = NULL
    /\ thr[currentThread].status = "RUNNING"
    /\ thr' = [thr EXCEPT ![currentThread].status = "BLOCKED"]
    /\ op' = "Sleep"
    /\ aged' = {}
    /\ UNCHANGED <<L1, L2, L3, now, currentThread, preemptive, nextThread,
                   toBeDestroyed, switching, aborted, insOrd, dispatches>>

\* Thread::Finish: the running thread is done; it then dispatches its successor
\* with FindNextToRun and Run(next, finishing = TRUE).
Finish ==
    /\ Callable
    /\ UNCHANGED fs
    /\ nextThread = NULL
    /\ thr[currentThread].status = "RUNNING"
    /\ thr' = [thr EXCEPT ![currentThread].status = "FINISHED"]
    /\ op' = "Finish"
    /\ aged' = {}
    /\ UNCHANGED <<L1, L2, L3, now, currentThread, preemptive, nextThread,
                   toBeDestroyed, switching, aborted, insOrd, dispatches>>

\* the simulated clock: totalTicks only grows, in a run whose clock stops at
\* `limit`
TickWithin(limit) ==
    /\ Callable
    /\ UNCHANGED fs
    /\ nextThread = NULL
    /\ now + TickStep <= limit
    /\ now' = now + TickStep
    /\ op' = "Tick"
    /\ aged' = {}
    /\ UNCHANGED <<thr, L1, L2, L3, currentThread, preemptive, nextThread,
                   toBeDestroyed, switching, aborted, insOrd, dispatches>>

Tick == TickWithin(MaxTicks)

\* the timer interrupt handler reads the preempt flag and clears it
TimerClear ==
    /\ Callable
    /\ UNCHANGED fs
    /\ nextThread = NULL
    /\ preemptive
    /\ preemptive' = FALSE
    /\ op' = "TimerClear"
    /\ aged' = {}
    /\ UNCHANGED <<thr, L1, L2, L3, now, currentThread, nextThread,
                   toBeDestroyed, switching, aborted, insOrd, dispatches>>

Next ==
    \/ \E t \in Threads : ReadyToRun(t)
    \/ FindNextToRun
    \/ \E finishing \in BOOLEAN : Run(finishing)
    \/ AfterSwitch
    \/ AgingCheck
    \/ DoPreemptL1
    \/ Sleep
    \/ Finish
    \/ Tick
    \/ TimerClear

Spec == Init /\ [][Next]_vars

\* The dispatch protocol alone, at one instant of the clock, over more
\* dispatches: threads are readied, handed out, switched to, and sleep, yield
\* and finish.
Dispatch == FindNextToRunWithin(MaxSwitches)

NextDispatch ==
    \/ \E t \in Threads : ReadyToRun(t)
    \/ Dispatch
    \/ \E finishing \in BOOLEAN : Run(finishing)
    \/ AfterSwitch
    \/ Sleep
    \/ Finish

DispatchSpec == Init /\ [][NextDispatch]_vars

\* The ready queues left to the timer alone: threads are made ready and wait,
\* the clock advances MaxWaits steps and the alarm calls agingCheck, while no
\* thread is dispatched.  The timer interrupt keeps coming as long as the
\* kernel lives, so the clock and agingCheck are not put off forever.
AgingNext ==
    \/ \E t \in Threads : ReadyToRun(t)
    \/ TickWithin(MaxWaits * TickStep)
    \/ AgingCheck

\* every thread starts at the lowest priority, the furthest from L1
AgingStart ==
    /\ Init
    /\ \A t \in Threads : thr[t].priority = MainPriority /\ thr[t].predictTime = 0

AgingSpec ==
    AgingStart /\ [][AgingNext]_vars
        /\ WF_vars(TickWithin(MaxWaits * TickStep)) /\ WF_vars(AgingCheck)

(* ----------------------- the file system's calls ------------------------ *)
\* the scheduler's variables, which no file-system call touches
schedVars == <<thr, L1, L2, L3, now, currentThread, preemptive, nextThread,
               toBeDestroyed, switching, aborted, op, insOrd, aged, dispatches>>

\* FileSystem::Create(name, initialSize)
Create(path, initialSize) ==
    /\ FsCallable
    /\ fs' = After(CreateOutcome(Persisted(fs.freeMap, fs.disk), path, initialSize),
                   "Create", path, initialSize)
    /\ UNCHANGED schedVars

\* FileSystem::CreateAdirectory(name)
CreateAdirectory(path) ==
    /\ FsCallable
    /\ \E o \in CreateAdirectoryOutcomes(Persisted(fs.freeMap, fs.disk), path) :
           fs' = After(o, "CreateAdirectory", path, DirectoryFileSize)
    /\ UNCHANGED schedVars

\* FileSystem::Open(name); the result is the sector of the handle returned
Open(path) ==
    /\ FsCallable
    /\ fs' = After(OpenOutcome(Persisted(fs.freeMap, fs.disk), path), "Open", path, 0)
    /\ UNCHANGED schedVars

\* FileSystem::Remove(name)
Remove(path) ==
    /\ FsCallable
    /\ fs' = After(RemoveOutcome(Persisted(fs.freeMap, fs.disk), path), "Remove", path, 0)
    /\ UNCHANGED schedVars

\* FileSystem::RecursiveRemove(name)
RecursiveRemove(path) ==
    /\ FsCallable
    /\ fs' = After(RecursiveRemoveOutcome(Persisted(fs.freeMap, fs.disk), path),
                   "RecursiveRemove", path, 0)
    /\ UNCHANGED schedVars

FsNext ==
    \/ \E path \in Paths, initialSize \in FileSizes : Create(path, initialSize)
    \/ \E path \in Paths : CreateAdirectory(path)
    \/ \E path \in Paths : Open(path)
    \/ \E path \in Paths : Remove(path)
    \/ \E path \in Paths : RecursiveRemove(path)

\* the file system on a freshly formatted disk, under one kernel
FsStart ==
    /\ Init
    /\ \A t \in Threads : thr[t].priority = MainPriority /\ thr[t].predictTime = 0

FsSpec == FsStart /\ [][FsNext]_vars

(* ----------------------- FileHeader::Allocate alone --------------------- *)
\* the bitmaps Allocate is given: the first k sectors marked, but for one
\* of the first two
FreeMaps == {(0 .. k - 1) \ {h} : k \in 0 .. NumSectors, h \in -1 .. 1}

AllocateSizes == 0 .. 2 * Level3

\* what fs keeps of a call of Allocate: the bitmap before and after, the
\* header it filled, the disk with the sub-headers it wrote, and what the
\* call returned
Allocated(freeMap, fileSize, a) ==
    [fs EXCEPT !.op = "Allocate", !.size = fileSize, !.beforeMap = freeMap,
               !.freeMap = a.map, !.result = a.ok, !.crashed = a.crashed,
               !.hdr = a.hdr, !.disk = a.disk]

\* hdr->Allocate(freeMap, fileSize) on a fresh header and the bitmap freeMap, once
AllocateCall(freeMap, fileSize) ==
    /\ fs.op = "Format"
    /\ fs' = Allocated(freeMap, fileSize, Allocate(freeMap, BlankDisk, fileSize))
    /\ UNCHANGED schedVars

AllocateNext == \E freeMap \in FreeMaps, fileSize \in AllocateSizes : AllocateCall(freeMap, fileSize)

AllocateSpec == FsStart /\ [][AllocateNext]_vars

(* ------------------------- the system calls' steps ---------------------- *)
\* the ids user programs pass, and the bytes and sizes of their buffers
OpenFileIds == {0, 1}
BufferBytes == {FreeEntry, [inUse |-> TRUE, isDirectory |-> FALSE, sector |-> FreeMapSector, name |-> "b"]}
BufferSizes == {-1, 1, SectorSize + 1}

\* the paths user programs name, and the sizes they create files with
SysPaths == UNION {[1 .. n -> Names] : n \in 1 .. 2}
SysSizes == {SectorSize + 1}

\* the kernel is alive and may serve another system call
SysCallable == ~fs.crashed /\ fs.syscalls < MaxSyscalls

\* the state a system call leaves: its outcome and, as history, the call,
\* whether a CloseFile has returned since the last OpenAFile that opened a
\* file, and the sector of the OpenFile it deleted
Served(o, call, path, size) ==
    [fs EXCEPT !.disk = o.disk, !.result = o.result, !.crashed = o.crashed, !.wild = FALSE,
               !.op = call, !.path = path, !.size = size, !.beforeMap = fs.freeMap,
               !.syscalls = @ + 1, !.fileDescriptor = o.fileDescriptor,
               !.closed = IF o.crashed THEN @
                          ELSE IF call = "CloseFile" THEN TRUE
                          ELSE IF call = "OpenAFile" /\ o.result >= 0 THEN FALSE ELSE @,
               !.closedSector = IF o.crashed THEN @
                                ELSE IF call = "CloseFile" /\ o.result = 1
                                THEN fs.fileDescriptor.sector
                                ELSE IF call = "OpenAFile" /\ o.result >= 0 THEN NoSector ELSE @]

\* SysOpen: FileSystem::OpenAFile(name)
OpenAFile(path) ==
    /\ SysCallable
    /\ fs' = Served(OpenAFileOutcome(fs.disk, fs.fileDescriptor, path), "OpenAFile", path, 0)
    /\ UNCHANGED schedVars

\* SysRead: FileSystem::ReadFile(buffer, size, id)
ReadFile(size, id) ==
    /\ SysCallable
    /\ \E file \in Held(fs.fileDescriptor) :
         \E o \in ReadFileOf(fs.disk, file, size, id) :
           fs' = Served(o, "ReadFile", <<>>, size)
    /\ UNCHANGED schedVars

\* SysWrite: FileSystem::WriteFile(buffer, size, id)
WriteFile(byte, size, id) ==
    /\ SysCallable
    /\ \E file \in Held(fs.fileDescriptor) :
         \E o \in WriteFileOf(fs.disk, file, byte, size, id) :
           fs' = Served(o, "WriteFile", <<>>, size)
    /\ UNCHANGED schedVars

\* SysClose: FileSystem::CloseFile(id)
CloseFile(id) ==
    /\ SysCallable
    /\ \E file \in Held(fs.fileDescriptor) :
         \E o \in CloseFileOf(fs.disk, file, id) :
           fs' = Served(o, "CloseFile", <<>>, 0)
    /\ UNCHANGED schedVars

\* user programs on a disk that files and directories are created on
SyscallNext ==
    \/ \E path \in SysPaths, initialSize \in SysSizes : Create(path, initialSize)
    \/ \E path \in SysPaths : CreateAdirectory(path)
    \/ \E path \in SysPaths : OpenAFile(path)
    \/ \E size \in BufferSizes, id \in OpenFileIds : ReadFile(size, id)
    \/ \E byte \in BufferBytes, size \in BufferSizes, id \in OpenFileIds : WriteFile(byte, size, id)
    \/ \E id \in OpenFileIds : CloseFile(id)

SyscallSpec == FsStart /\ [][SyscallNext]_vars

(* ------------------------------ the claims ------------------------------ *)
Queued == Range(L1) \cup Range(L2) \cup Range(L3)

\* the queues, of those numbered 1..3, that hold thread t
QueuesHolding(t) ==
    {i \in 1 .. 3 : t \in Range(IF i = 1 THEN L1 ELSE IF i = 2 THEN L2 ELSE L3)}

\* the queue of a priority's band as the specification gives it:
\* L1 for 100..149, L2 for 50..99, L3 for 0..49
BandQueue(p) == IF p >= 100 THEN 1 ELSE IF p >= 50 THEN 2 ELSE 3

NoDuplicates(q) == \A i, j \in 1 .. Len(q) : q[i] = q[j] => i = j

\* x comes before y in sequence q
Before(q, x, y) ==
    \E i, j \in 1 .. Len(q) : i < j /\ q[i] = x /\ q[j] = y

\* C1, as stated: while the kernel runs, every thread whose status is READY is in
\* exactly one of L1, L2, L3, the one of its priority band, and no thread is
\* in two queues.  FindNextToRun takes a thread out of its queue and leaves its
\* status READY until Run makes it RUNNING, so this fails.
C1_EveryReadyThreadQueued ==
    ~aborted =>
        \A t \in Threads :
            thr[t].status = "READY" =>
                QueuesHolding(t) = {BandQueue(thr[t].priority)}

\* C1, amended: while the kernel runs, every thread in a ready queue has status
\* READY, is in that one queue only and once, and the queue is the one of its
\* priority band; every READY thread is queued in this way except the thread
\* FindNextToRun has handed out for dispatch and Run has not yet made RUNNING.
C1_QueuedInBand ==
    ~aborted =>
        /\ \A t \in Threads :
               /\ t \in Queued =>
                      /\ thr[t].status = "READY"
                      /\ QueuesHolding(t) = {BandQueue(thr[t].priority)}
               /\ thr[t].status = "READY" /\ t # nextThread => t \in Queued
        /\ NoDuplicates(L1) /\ NoDuplicates(L2) /\ NoDuplicates(L3)

\* C1's case: aging has just moved a thread from L3 across the band boundary
\* into L2, while another thread is ready in a queue
C1_Witness ==
    /\ ~aborted
    /\ op = "agingCheck"
    /\ \E e \in aged :
           /\ e.to = 2
           /\ e.t \in Range(L2)
           /\ thr[e.t].priority - 10 < 50
           /\ Queued # {e.t}

\* C2: FindNextToRun removes and returns the head of L1 when L1 is non-empty,
\* otherwise the head of L2 when L2 is non-empty, otherwise the head of L3, and
\* leaves the other queues alone; when all three are empty it returns none
\* (NULL) and changes no queue.
C2_HighestBandFirst ==
    [][op' = "FindNextToRun" =>
          IF L1 # <<>>
          THEN nextThread' = Head(L1) /\ L1' = Tail(L1) /\ L2' = L2 /\ L3' = L3
          ELSE IF L2 # <<>>
          THEN nextThread' = Head(L2) /\ L2' = Tail(L2) /\ L1' = L1 /\ L3' = L3
          ELSE IF L3 # <<>>
          THEN nextThread' = Head(L3) /\ L3' = Tail(L3) /\ L1' = L1 /\ L2' = L2
          ELSE nextThread' = NULL /\ L1' = L1 /\ L2' = L2 /\ L3' = L3]_vars

\* C2's case: FindNextToRun has returned an L2 thread, L1 being empty, and has
\* left a thread waiting in L3
C2_Witness ==
    /\ op = "FindNextToRun"
    /\ nextThread # NULL
    /\ BandQueue(thr[nextThread].priority) = 2
    /\ L3 # <<>>

PredictOf(t) == thr[t].predictTime

PriorityOf(t) == thr[t].priority

\* two threads of a sorted queue that are equal under the queue's order stand
\* in it in the order of their latest insertion into it
L1TiesByInsertion ==
    \A i, j \in 1 .. Len(L1) :
        i < j /\ PredictOf(L1[i]) = PredictOf(L1[j]) => Before(insOrd, L1[i], L1[j])

L2TiesByInsertion ==
    \A i, j \in 1 .. Len(L2) :
        i < j /\ PriorityOf(L2[i]) = PriorityOf(L2[j]) => Before(insOrd, L2[i], L2[j])

\* C3: L1 is sorted by non-decreasing predictTime, FindNextToRun takes its head
\* (a thread of the shortest predicted burst in L1), and L1 threads with equal
\* predictTime stand, and so are selected, in the order in which they were
\* inserted into L1 (by ReadyToRun or by aging's re-insertion).
C3_L1ShortestFirst ==
    /\ [](\A i, j \in 1 .. Len(L1) : i < j => PredictOf(L1[i]) <= PredictOf(L1[j]))
    /\ [](L1TiesByInsertion)
    /\ [][op' = "FindNextToRun" /\ L1 # <<>> =>
              /\ nextThread' = Head(L1)
              /\ \A u \in Range(L1) : PredictOf(nextThread') <= PredictOf(u)]_vars

\* C3's case: aging has re-inserted a thread into L1, behind another thread of
\* the same predictTime that had been inserted after it
C3_Witness ==
    /\ ~aborted
    /\ op = "agingCheck"
    /\ \E e \in aged, b \in Range(L1) :
           /\ e.to = 1
           /\ e.t \in Range(L1)
           /\ b \notin {x.t : x \in aged}
           /\ PredictOf(e.t) = PredictOf(b)
           /\ Before(L1, b, e.t)

\* C4: while the kernel runs L2 is sorted by non-increasing priority,
\* FindNextToRun takes its head when L1 is empty (a thread of the highest
\* priority in L2), and L2 threads with equal priority stand, and so are
\* selected, in the order in which they were inserted into L2 (by ReadyToRun
\* or by aging's re-insertion).
C4_L2HighestFirst ==
    /\ [](~aborted =>
            \A i, j \in 1 .. Len(L2) : i < j => PriorityOf(L2[i]) >= PriorityOf(L2[j]))
    /\ [](~aborted => L2TiesByInsertion)
    /\ [][op' = "FindNextToRun" /\ L1 = <<>> /\ L2 # <<>> =>
              /\ nextThread' = Head(L2)
              /\ \A u \in Range(L2) : PriorityOf(nextThread') >= PriorityOf(u)]_vars

\* C4's case: aging has re-inserted a thread into L2, which now holds two
\* threads of the same priority
C4_Witness ==
    /\ ~aborted
    /\ op = "agingCheck"
    /\ \E e \in aged : e.to = 2 /\ e.t \in Range(L2)
    /\ \E a, b \in Range(L2) : a # b /\ PriorityOf(a) = PriorityOf(b)

\* C5, as stated: L3 is strict FIFO in the order of the ReadyToRun calls.  Threads
\* enter L3 only at its tail and leave it, for dispatch, only at its head, so
\* this is: no step of a running kernel swaps two threads that stay in L3, and
\* a thread that enters L3 stands behind those already there.  Aging removes
\* a promoted thread that stays in the L3 band and appends it again, behind
\* the threads readied after it, so this fails.
C5_L3StrictFifo ==
    [][~aborted' =>
          /\ \A a, b \in Range(L3) \cap Range(L3') :
                 Before(L3, a, b) => Before(L3', a, b)
          /\ \A a \in Range(L3) \cap Range(L3'), n \in Range(L3') \ Range(L3) :
                 Before(L3', a, n)]_vars

\* C6: 0 <= priority <= 149 for every thread in every reachable state.
C6_PriorityInRange ==
    \A t \in Threads : 0 <= thr[t].priority /\ thr[t].priority <= 149

\* C6's case: aging has promoted a thread whose priority was within 10 of the
\* cap, and a second time at the cap
C6_Witness ==
    /\ op = "agingCheck"
    /\ \E e \in aged :
           /\ thr[e.t].priority = 149
           /\ thr[e.t].TimeInReadyQueue = 0
           /\ thr[e.t].ReadyStartTime = 2 * 1500

\* waited = now - t.ReadyStartTime + t.TimeInReadyQueue
Waited(t) == now - thr[t].ReadyStartTime + thr[t].TimeInReadyQueue

\* the threads of queue q that one agingCheck is not to promote, in q's order
NotDue(q) == SelectSeq(q, LAMBDA t : Waited(t) < 1500)

\* C7, as stated: an agingCheck that the kernel survives changes a queued thread t
\* with waited >= 1500 to priority min(149, priority + 10), ReadyStartTime now
\* and TimeInReadyQueue waited - 1500, and leaves the priority, the
\* timestamps and the queue position of a thread with waited < 1500 as they
\* are.  The loop of aging goes on from an element it has just deleted: it
\* ends early, skipping threads that are due, or meets a promoted thread
\* again and promotes it twice, so this fails.
C7_AgedExactlyOnce ==
    [][op' = "agingCheck" /\ ~aborted' =>
          /\ \A t \in Queued :
                 IF Waited(t) >= 1500
                 THEN /\ thr'[t].priority =
                             (IF thr[t].priority + 10 > 149 THEN 149
                              ELSE thr[t].priority + 10)
                      /\ thr'[t].ReadyStartTime = now
                      /\ thr'[t].TimeInReadyQueue = Waited(t) - 1500
                 ELSE thr'[t] = thr[t]
          /\ NotDue(L1) = SelectSeq(L1', LAMBDA t : t \in Range(NotDue(L1)))
          /\ NotDue(L2) = SelectSeq(L2', LAMBDA t : t \in Range(NotDue(L2)))
          /\ NotDue(L3) = SelectSeq(L3', LAMBDA t : t \in Range(NotDue(L3)))]_vars

\* the condition under which the promotion e of thread e.t to the queue e.to
\* is to set the preempt flag, e.cp and e.cb being current.priority and
\* current.predictTime when it is made
SetsFlag(e) ==
    \/ e.to = 1 /\ (e.cp < 100 \/ (e.cp >= 100 /\ e.cb > thr[e.t].predictTime))
    \/ e.to = 2 /\ e.cp < 50

\* C8: an agingCheck sets the preempt flag exactly when one of its promotions
\* asks for it: of a thread landing in L1, when current.priority < 100 or
\* current.priority >= 100 and current.predictTime > t.predictTime; of a
\* thread landing in L2, when current.priority < 50; of a thread landing in
\* L3, never.  Hence when it sets the flag, a promoted thread has entered a
\* band higher than the current thread's or an L1 thread has a shorter
\* predicted burst than the current thread.
C8_AgingPreempt ==
    [][op' = "agingCheck" =>
          /\ preemptive' = (preemptive \/ \E e \in aged' : SetsFlag(e))
          /\ ~preemptive /\ preemptive' =>
                 \E e \in aged' :
                     \/ e.to < BandQueue(e.cp)
                     \/ e.to = 1 /\ thr[e.t].predictTime < e.cb]_vars

\* C8's case: aging has promoted a thread into L1 while the current thread is
\* below band L1, and the flag is set
C8_Witness ==
    /\ op = "agingCheck"
    /\ preemptive
    /\ thr[currentThread].priority < 100
    /\ \E e \in aged : e.to = 1 /\ e.t \in Range(L1) /\ thr[e.t].priority - 10 < 100

\* C9: doPreemptL1 sets the preempt flag if and only if current.priority >= 100
\* and some thread in L1 has a predictTime strictly smaller than
\* current.predictTime; otherwise it leaves the flag as it is; it changes no
\* queue and no thread.
C9_PreemptL1 ==
    [][op' = "doPreemptL1" =>
          LET cur == thr[currentThread]
          IN  /\ preemptive' =
                     (preemptive \/ (cur.priority >= 100
                                       /\ \E u \in Range(L1) :
                                              thr[u].predictTime < cur.predictTime))
              /\ L1' = L1 /\ L2' = L2 /\ L3' = L3 /\ thr' = thr]_vars

\* C9's case: doPreemptL1 has run with the current thread in band L1 and a
\* thread of a shorter predicted burst in L1, and the flag is set
C9_Witness ==
    /\ op = "doPreemptL1"
    /\ preemptive
    /\ thr[currentThread].priority >= 100
    /\ \E u \in Range(L1) : thr[u].predictTime < thr[currentThread].predictTime

SchedulerOps ==
    {"ReadyToRun", "FindNextToRun", "Run", "CheckToBeDestroyed", "agingCheck",
     "doPreemptL1"}

\* C10: no scheduler operation (ReadyToRun, FindNextToRun, Run, agingCheck,
\* doPreemptL1) changes the preempt flag from true to false.
C10_FlagNeverCleared ==
    [][op' \in SchedulerOps => (preemptive => preemptive')]_vars

\* C10's case: with the flag already set, aging has promoted a thread whose
\* promotion does not ask for preemption, and the flag is still set
C10_Witness ==
    /\ op = "agingCheck"
    /\ preemptive
    /\ aged # {}
    /\ \A e \in aged : ~SetsFlag(e)

\* C11: lazy reaping.  The ASSERT(toBeDestroyed == NULL) of Run never fails:
\* the slot is empty whenever Run(next, finishing = TRUE) starts, and outside
\* the switch.  A thread is destroyed only by CheckToBeDestroyed, in the step
\* that follows the Run it finished with, made by the thread switched to; it
\* is the thread that finished, it was not destroyed before, and it is not
\* the thread that is current at that moment.
C11_LazyReaping ==
    /\ [](~aborted)
    /\ [](~switching => toBeDestroyed = NULL)
    /\ [](toBeDestroyed # NULL =>
              /\ toBeDestroyed # currentThread
              /\ thr[toBeDestroyed].status = "FINISHED")
    /\ [][op' = "Run" /\ thr[currentThread].status = "FINISHED" =>
              /\ toBeDestroyed = NULL
              /\ toBeDestroyed' = currentThread
              /\ currentThread' # currentThread
              /\ thr'[currentThread].status = "FINISHED"]_vars
    /\ [][\A t \in Threads :
              thr'[t].status = "DELETED" /\ thr[t].status # "DELETED" =>
                  /\ op' = "CheckToBeDestroyed"
                  /\ op = "Run"
                  /\ t = toBeDestroyed
                  /\ t # currentThread
                  /\ currentThread' = currentThread]_vars

\* C11's case: two threads have finished one after the other, and the second
\* has just been destroyed by the thread that was switched to
C11_Witness ==
    /\ op = "CheckToBeDestroyed"
    /\ Cardinality({t \in Threads : thr[t].status = "DELETED"}) = 2
    /\ thr[currentThread].status = "RUNNING"

\* the status changes the specification's state machine allows
AllowedStatusChanges ==
    {<<"JUST_CREATED", "READY">>, <<"READY", "RUNNING">>, <<"RUNNING", "READY">>,
     <<"RUNNING", "BLOCKED">>, <<"BLOCKED", "READY">>, <<"RUNNING", "FINISHED">>}

\* C12: a thread's status changes only along the allowed changes (the
\* destruction of a finished thread aside, which ends the thread); every
\* change to READY is made by ReadyToRun and every change to RUNNING by Run,
\* which makes that thread the current thread; at most one thread is RUNNING,
\* it is the current thread, and no RUNNING thread is in a ready queue.
C12_StatusMachine ==
    /\ [][\A t \in Threads :
              thr'[t].status # thr[t].status =>
                  /\ \/ <<thr[t].status, thr'[t].status>> \in AllowedStatusChanges
                     \/ thr[t].status = "FINISHED" /\ thr'[t].status = "DELETED"
                  /\ thr'[t].status = "READY" => op' = "ReadyToRun"
                  /\ thr'[t].status = "RUNNING" =>
                         op' = "Run" /\ currentThread' = t]_vars
    /\ [](\A t \in Threads :
              thr[t].status = "RUNNING" => t = currentThread /\ t \notin Queued)

\* C12's case: Run has just made the third thread handed out RUNNING and
\* current, while another thread waits READY in a ready queue
C12_Witness ==
    /\ op = "Run"
    /\ dispatches >= 3
    /\ thr[currentThread].status = "RUNNING"
    /\ \E t \in Threads : t # currentThread /\ t \in Queued /\ thr[t].status = "READY"

(* ------------------------- the file system's claims --------------------- *)
\* what is on the disk now
OnDisk == Persisted(fs.freeMap, fs.disk)

\* the last call was `call`, and returned
Did(call) == fs.op = call /\ ~fs.crashed

\* the header Open(path) gives a handle to, on the disk p
OpenedHeader(p, path) == FetchHeader(p.disk, OpenOutcome(p, path).result)

\* C13: after a Create(name, size) that returned TRUE, the file Open(name)
\* gives has length size, and ByteToSector of each of its offsets
\* 0 .. size - 1 is a sector of the disk that the persisted bitmap marks.
\* A file of 2 * Level3 bytes created on the formatted disk breaks it: the
\* last sub-header's Allocate fails and Create still returns TRUE.
C13_CreatedFileIsWhole ==
    Did("Create") /\ fs.result = TRUE =>
        /\ ~OpenOutcome(OnDisk, fs.path).crashed
        /\ FileLength(OpenedHeader(OnDisk, fs.path)) = fs.size
        /\ \A offset \in 0 .. fs.size - 1 :
               /\ ~ByteToSector(fs.disk, OpenedHeader(OnDisk, fs.path), offset).crashed
               /\ ByteToSector(fs.disk, OpenedHeader(OnDisk, fs.path), offset).sector
                      \in fs.freeMap

\* C14: Remove(name) right after a Create(name, size) that returned TRUE
\* returns TRUE and leaves the persisted bitmap as it was before the Create:
\* the file's data sectors, the sectors of its sub-headers and its header
\* sector are all clear again.  A file of Level2 + 1 bytes breaks it: the
\* sectors of its two sub-headers stay marked.
C14_RemoveFreesAll ==
    [][Did("Create") /\ fs.result = TRUE /\ fs'.op = "Remove" /\ fs'.path = fs.path
           => /\ ~fs'.crashed
              /\ fs'.result = TRUE
              /\ fs'.freeMap = fs.beforeMap]_vars

\* the directory entry the path names on the disk, following it from
\* component i through the directory tables; FreeEntry when a component is
\* in no table, or one before the leaf is no directory
RECURSIVE Lookup(_, _, _, _)
Lookup(disk, table, path, i) ==
    IF FindIndex(table, path[i]) = -1 \/ BadHeaderSector(disk, Find(table, path[i]))
    THEN FreeEntry
    ELSE IF i = Len(path) THEN table[FindIndex(table, path[i])]
    ELSE IF ~isDirectory(table, path[i]) THEN FreeEntry
    ELSE Lookup(disk,
                ReadTable(disk, FetchHeader(disk, Find(table, path[i])), NewDirectory).table,
                path, i + 1)

\* the header sector the path names, or NoSector
Resolve(p, path) ==
    IF Lookup(p.disk, RootTable(p.disk).table, path, 1).inUse
    THEN Lookup(p.disk, RootTable(p.disk).table, path, 1).sector
    ELSE NoSector

\* C15: an Open(name) of a path that names nothing on the disk (after a
\* Remove of it, or because a component of it is in no directory) returns
\* not-found, no handle.  Open("/a") on the formatted disk breaks it: it
\* returns a handle to the root directory.
C15_OpenAbsentNotFound ==
    Did("Open") /\ Resolve(OnDisk, fs.path) = NoSector => fs.result = NoSector

\* the path names a directory
NamesDirectory(p, path) ==
    /\ Lookup(p.disk, RootTable(p.disk).table, path, 1).inUse
    /\ Lookup(p.disk, RootTable(p.disk).table, path, 1).isDirectory

\* the sectors a file holds beneath its header: data sectors, and the
\* sub-headers with what they hold
RECURSIVE HeldBy(_, _)
HeldBy(disk, hdr) ==
    IF hdr.numBytes > Level2
    THEN UNION {{s} \cup HeldBy(disk, FetchHeader(disk, s)) :
                    s \in {hdr.dataSectors[i] : i \in DOMAIN hdr.dataSectors} \cap Sectors}
    ELSE {hdr.dataSectors[i] : i \in {j \in DOMAIN hdr.dataSectors : j < hdr.numSectors}}
             \cap Sectors

\* the table of the directory whose header is in sector s, and the entries
\* of a table that are in use
DirectoryAt(disk, s) == ReadTable(disk, FetchHeader(disk, s), NewDirectory).table

InUse(table) == {table[k] : k \in {j \in DOMAIN table : table[j].inUse}}

\* the sectors of the tree under an entry: the header, what it holds, and
\* for a directory the trees of its entries
RECURSIVE TreeSectors(_, _)
TreeSectors(disk, entry) ==
    {entry.sector} \cup HeldBy(disk, FetchHeader(disk, entry.sector))
        \cup (IF entry.isDirectory
              THEN UNION {TreeSectors(disk, e) : e \in InUse(DirectoryAt(disk, entry.sector))}
              ELSE {})

\* q is the path or lies beneath it
Beneath(path, q) == Len(q) >= Len(path) /\ SubSeq(q, 1, Len(path)) = path

\* C16: RecursiveRemove(path) of a directory returns with the directory and
\* everything beneath it gone: no path at or beneath it resolves any more,
\* and the persisted bitmap has lost exactly the sectors the tree held.
\* mkdir /a, create /a/b, RecursiveRemove(/a) breaks it: only /a is removed,
\* the sectors of /a/b stay marked.
C16_RecursiveRemoveTree ==
    [][fs'.op = "RecursiveRemove" /\ NamesDirectory(OnDisk, fs'.path)
           => /\ ~fs'.crashed
              /\ \A q \in Paths : Beneath(fs'.path, q)
                     => Resolve(Persisted(fs'.freeMap, fs'.disk), q) = NoSector
              /\ fs'.freeMap = fs.freeMap
                     \ TreeSectors(fs.disk, Lookup(fs.disk, RootTable(fs.disk).table,
                                                   fs'.path, 1))]_vars

\* C17: a Create(path, size) whose path already names something on the disk
\* returns FALSE, and leaves the persisted bitmap and every sector (the
\* directories and the header of what is there) as they were.  A second
\* Create("/a", size) breaks it: the call does not return.
C17_CreateExistingFails ==
    [][fs'.op = "Create" /\ Resolve(OnDisk, fs'.path) # NoSector
           => /\ ~fs'.crashed
              /\ fs'.result = FALSE
              /\ fs'.freeMap = fs.freeMap
              /\ fs'.disk = fs.disk]_vars

\* the table of the directory a new leaf of the path goes into, when the
\* path up to the leaf names something
ParentTable(p, path) ==
    IF Len(path) = 1 THEN RootTable(p.disk).table
    ELSE DirectoryAt(p.disk, Resolve(p, SubSeq(path, 1, Len(path) - 1)))

\* the path names nothing yet, its parent is a directory, and the disk lacks what
\* a new file of that size needs: a sector for the header, a slot in the
\* parent's table, or as many free sectors as the file has data sectors
LacksResources(p, path, size) ==
    /\ Resolve(p, path) = NoSector
    /\ Len(path) > 1 => NamesDirectory(p, SubSeq(path, 1, Len(path) - 1))
    /\ \/ FindFree(p.freeMap) = NoSector
       \/ FreeSlot(ParentTable(p, path)) = -1
       \/ NumClear(p.freeMap) - 1 < divRoundUp(size, SectorSize)

\* C18: a Create or CreateAdirectory that the disk lacks the resources for
\* returns FALSE and leaves the persisted bitmap and every sector of the
\* disk as they were.  CreateAdirectory("/b") on a disk with two free
\* sectors breaks it: nothing is written, but the call need not return.
C18_ExhaustionFailsClean ==
    [][fs'.op \in {"Create", "CreateAdirectory"}
           /\ LacksResources(OnDisk, fs'.path, fs'.size)
           => /\ ~fs'.crashed
              /\ fs'.result = FALSE
              /\ fs'.freeMap = fs.freeMap
              /\ fs'.disk = fs.disk]_vars

\* C19: Allocate(freeMap, fileSize) on a bitmap with fewer clear bits than
\* ceil(fileSize / SectorSize) returns FALSE and leaves the bitmap as it was.
C19_AllocateRefuses ==
    fs.op = "Allocate" /\ NumClear(fs.beforeMap) < divRoundUp(fs.size, SectorSize)
        => /\ ~fs.crashed
           /\ fs.result = FALSE
           /\ fs.freeMap = fs.beforeMap

\* an indirect file refused on a bitmap that has clear bits, one too few
C19_Witness ==
    /\ fs.op = "Allocate"
    /\ fs.size > Level2
    /\ NumClear(fs.beforeMap) + 1 = divRoundUp(fs.size, SectorSize)
    /\ fs.result = FALSE

\* C20: a Remove(path) of a path that names nothing on the disk (its leaf is
\* in no directory, or a component before the leaf is missing or is a
\* regular file) returns FALSE and leaves the persisted bitmap and every
\* sector as they were.  Remove("/a/b") with /a a regular file breaks it:
\* it removes /a and returns TRUE.
C20_RemoveAbsentFails ==
    [][fs'.op = "Remove" /\ Resolve(OnDisk, fs'.path) = NoSector
           => /\ ~fs'.crashed
              /\ fs'.result = FALSE
              /\ fs'.freeMap = fs.freeMap
              /\ fs'.disk = fs.disk]_vars

(* ----------------------- the file headers' claims ----------------------- *)
\* the sub-headers a file of fileSize bytes has, at all levels
RECURSIVE SubHeaders(_)
RECURSIVE SubHeadersFrom(_, _)

\* those of the chunks of `bound` bytes that `left` bytes are cut into
SubHeadersFrom(left, bound) ==
    IF left <= 0 THEN 0
    ELSE 1 + SubHeaders(IF left > bound THEN bound ELSE left)
           + SubHeadersFrom(left - bound, bound)

SubHeaders(fileSize) ==
    IF fileSize > Level2 THEN SubHeadersFrom(fileSize, BoundOf(fileSize)) ELSE 0

\* the bitmap has room for the data sectors and for the sub-headers
Roomy(map, fileSize) ==
    NumClear(map) >= divRoundUp(fileSize, SectorSize) + SubHeaders(fileSize)

\* the header of the last Allocate maps its offsets to data sectors that
\* Allocate claimed, block by block: offsets of one block to one sector,
\* offsets of two blocks to two sectors
MapsItsBytes ==
    /\ \A k \in 0 .. fs.size - 1 :
           /\ ~ByteToSector(fs.disk, fs.hdr, k).crashed
           /\ ByteToSector(fs.disk, fs.hdr, k).sector \in fs.freeMap \ fs.beforeMap
           /\ fs.disk[ByteToSector(fs.disk, fs.hdr, k).sector].kind # "hdr"
    /\ \A j, k \in 0 .. fs.size - 1 :
           (j \div SectorSize = k \div SectorSize)
               <=> ByteToSector(fs.disk, fs.hdr, j).sector
                       = ByteToSector(fs.disk, fs.hdr, k).sector

\* C21, as the specification has it: after an Allocate that returned TRUE,
\* ByteToSector maps every offset below numBytes to a data sector claimed by
\* that Allocate, one sector per block.  An Allocate of 2 * Level3 bytes on a
\* bitmap with room for the data but not for all sub-headers breaks it.
C21_EveryAllocateMaps ==
    fs.op = "Allocate" /\ ~fs.crashed /\ fs.result = TRUE => MapsItsBytes

\* C21, amended: the same, for an Allocate on a bitmap that has room for the
\* data sectors and the sub-headers of the file.
C21_RoomyAllocateMaps ==
    fs.op = "Allocate" /\ Roomy(fs.beforeMap, fs.size) =>
        ~fs.crashed /\ fs.result = TRUE /\ MapsItsBytes

\* a file with two levels of sub-headers, allocated with room
C21_Witness ==
    /\ fs.op = "Allocate"
    /\ fs.size > Level3
    /\ Roomy(fs.beforeMap, fs.size)
    /\ fs.result = TRUE
    /\ ByteToSector(fs.disk, fs.hdr, 0).sector
           # ByteToSector(fs.disk, fs.hdr, fs.size - 1).sector

(* ------------------- the file system's claims, continued ---------------- *)
\* C22: a CreateAdirectory(path) of a path that already names something on
\* the disk returns FALSE and leaves the persisted bitmap and every sector as
\* they were.  A second CreateAdirectory("/a") breaks it: it returns TRUE
\* and makes a directory a inside /a.
C22_CreateAdirectoryExistingFails ==
    [][fs'.op = "CreateAdirectory" /\ Resolve(OnDisk, fs'.path) # NoSector
           => /\ ~fs'.crashed
              /\ fs'.result = FALSE
              /\ fs'.freeMap = fs.freeMap
              /\ fs'.disk = fs.disk]_vars


(* ----------------------- the system calls' claims ----------------------- *)
\* a step that serves a system call
SysStep == fs'.syscalls = fs.syscalls + 1

C24_OpenAFileOpensNamed ==
    [][(SysStep /\ fs'.op = "OpenAFile") =>
         /\ (Resolve(OnDisk, fs'.path) # NoSector /\ ~NamesDirectory(OnDisk, fs'.path))
              => /\ ~fs'.crashed
                 /\ fs'.result = Resolve(OnDisk, fs'.path)
                 /\ fs'.fileDescriptor = OpenFile(fs.disk, Resolve(OnDisk, fs'.path))
         /\ Resolve(OnDisk, fs'.path) = NoSector
              => /\ ~fs'.crashed
                 /\ fs'.result = -1
                 /\ fs'.fileDescriptor = fs.fileDescriptor]_vars

(* ------------------- the file headers' claims, continued ---------------- *)
\* the sectors a call has claimed
Claimed == fs.freeMap \ fs.beforeMap

\* C25: an Allocate that returns TRUE has lowered the number of free sectors
\* by exactly the file's data sectors plus its sub-headers at every level, and
\* every nested Allocate has succeeded: every byte of the file has a sector.
C25_AllocateCountsSectors ==
    (fs.op = "Allocate" /\ ~fs.crashed /\ fs.result = TRUE)
        => /\ Cardinality(Claimed) = divRoundUp(fs.size, SectorSize) + SubHeaders(fs.size)
           /\ NumClear(fs.freeMap) = NumClear(fs.beforeMap) - Cardinality(Claimed)
           /\ \A k \in 0 .. fs.size - 1 :
                  ByteToSector(fs.disk, fs.hdr, k).sector \in Claimed

\* the sub-headers an indirect header of fileSize bytes has when each spans
\* BoundOf(fileSize) bytes, and the bytes of the i-th of them
Chunks(fileSize) == divRoundUp(fileSize, BoundOf(fileSize))

ChunkBytes(fileSize, i) ==
    IF i < Chunks(fileSize) - 1 THEN BoundOf(fileSize)
    ELSE fileSize - (Chunks(fileSize) - 1) * BoundOf(fileSize)

\* the sub-header found in slot i of hdr
SubHeaderAt(disk, hdr, i) == FetchHeader(disk, hdr.dataSectors[i])

RECURSIVE SumBytes(_, _, _)
SumBytes(disk, hdr, n) ==
    IF n <= 0 THEN 0 ELSE SubHeaderAt(disk, hdr, n - 1).numBytes + SumBytes(disk, hdr, n - 1)

\* C26: an Allocate of more than Level2 bytes that passes its test of the
\* free count makes exactly ceil(fileSize / bound) sub-headers, at most
\* NumDirect of them; each but the last spans bound bytes and the last the
\* remainder, their numBytes add up to fileSize, and the loop stops after the
\* last of them (the slots behind it are untouched).  With room for data
\* sectors and sub-headers the loop runs to its end.
C26_SubHeaderChunks ==
    (fs.op = "Allocate" /\ fs.size > Level2)
        => /\ Roomy(fs.beforeMap, fs.size) => ~fs.crashed /\ fs.result = TRUE
           /\ (~fs.crashed /\ fs.result = TRUE)
                => /\ Chunks(fs.size) <= NumDirect
                   /\ \A i \in 0 .. NumDirect - 1 :
                        IF i < Chunks(fs.size)
                        THEN /\ fs.hdr.dataSectors[i] \in Claimed
                             /\ fs.disk[fs.hdr.dataSectors[i]].kind = "hdr"
                             /\ SubHeaderAt(fs.disk, fs.hdr, i).numBytes = ChunkBytes(fs.size, i)
                             /\ SubHeaderAt(fs.disk, fs.hdr, i).numSectors
                                    = divRoundUp(ChunkBytes(fs.size, i), SectorSize)
                        ELSE fs.hdr.dataSectors[i] = NoSector
                   /\ SumBytes(fs.disk, fs.hdr, Chunks(fs.size)) = fs.size

\* two levels of sub-headers, the last chunk smaller than the bound
C26_Witness ==
    /\ fs.op = "Allocate" /\ ~fs.crashed /\ fs.result = TRUE
    /\ fs.size > Level3 /\ Chunks(fs.size) = 2
    /\ SubHeaderAt(fs.disk, fs.hdr, 0).numBytes = Level3
    /\ SubHeaderAt(fs.disk, fs.hdr, 1).numBytes \in 1 .. Level3 - 1

(* ------------------ the file system's claims: directories --------------- *)
\* the header sectors of the directories of the tree under the directory in
\* sector s, down to `depth` levels
RECURSIVE Directories(_, _, _)
Directories(disk, s, depth) ==
    {s} \cup (IF depth = 0 \/ BadHeaderSector(disk, s) THEN {}
              ELSE UNION {Directories(disk, e.sector, depth - 1) :
                              e \in {x \in InUse(DirectoryAt(disk, s)) : x.isDirectory}})

\* the header sector of the directory the last name of the path belongs in
ParentSector(p, path) ==
    IF Len(path) = 1 THEN DirectorySector ELSE Resolve(p, SubSeq(path, 1, Len(path) - 1))

\* every directory on the way to the last name of the path exists
IntermediatesExist(p, path) ==
    Len(path) > 1 => NamesDirectory(p, SubSeq(path, 1, Len(path) - 1))

\* table `new` is table `old` with one more entry, which has that name and
\* flag and a header sector out of `claimed`
OneEntryAdded(old, new, name, isDir, claimed) ==
    \E k \in DOMAIN old :
        /\ ~old[k].inUse
        /\ new[k].inUse /\ new[k].name = name /\ new[k].isDirectory = isDir
        /\ new[k].sector \in claimed
        /\ \A j \in DOMAIN old \ {k} : new[j] = old[j]

\* what a successful Create or CreateAdirectory of fs'.path has done to the
\* directories: one entry more in the parent, the others as they were, and a
\* new directory empty
CreatedInParent ==
    /\ OneEntryAdded(DirectoryAt(fs.disk, ParentSector(OnDisk, fs'.path)),
                     DirectoryAt(fs'.disk, ParentSector(OnDisk, fs'.path)),
                     fs'.path[Len(fs'.path)], fs'.op = "CreateAdirectory",
                     fs'.freeMap \ fs.freeMap)
    /\ \A d \in Directories(fs.disk, DirectorySector, MaxCalls) :
           d # ParentSector(OnDisk, fs'.path)
               => DirectoryAt(fs'.disk, d) = DirectoryAt(fs.disk, d)
    /\ fs'.op = "CreateAdirectory"
           => InUse(DirectoryAt(fs'.disk, Resolve(Persisted(fs'.freeMap, fs'.disk), fs'.path))) = {}

\* a step that is a Create or CreateAdirectory that returned TRUE
CreatedStep ==
    /\ fs'.calls = fs.calls + 1
    /\ fs'.op \in {"Create", "CreateAdirectory"}
    /\ ~fs'.crashed /\ fs'.result = TRUE

OthersKept(t) == \A u \in Threads \ {t} : thr'[u] = thr[u]

\* C28: FindNextToRun adds now - ReadyStartTime to the TimeInReadyQueue of
\* the thread it returns and changes nothing else of any thread; ReadyToRun
\* sets the thread's ReadyStartTime to now and its status to READY, and leaves
\* its TimeInReadyQueue and priority, and every other thread, as they were.
C28_ReadyTimeAccounting ==
    [][/\ op' = "FindNextToRun"
            => IF nextThread' = NULL THEN thr' = thr
               ELSE /\ thr'[nextThread'] =
                          [thr[nextThread'] EXCEPT !.TimeInReadyQueue =
                               @ + (now - thr[nextThread'].ReadyStartTime)]
                    /\ OthersKept(nextThread')
       /\ op' = "ReadyToRun"
            => /\ insOrd' # <<>>
               /\ thr'[insOrd'[Len(insOrd')]] =
                      [thr[insOrd'[Len(insOrd')]] EXCEPT !.status = "READY",
                                                          !.ReadyStartTime = now]
               /\ OthersKept(insOrd'[Len(insOrd')])]_vars

\* FindNextToRun has returned a thread that had waited since it was readied,
\* and another thread has been readied at the present time
C28_Witness ==
    /\ op = "FindNextToRun" /\ nextThread # NULL
    /\ now > thr[nextThread].ReadyStartTime
    /\ thr[nextThread].TimeInReadyQueue >= now - thr[nextThread].ReadyStartTime
    /\ thr[nextThread].TimeInReadyQueue > 0
    /\ \E u \in Threads \ {nextThread} :
           thr[u].status = "READY" /\ thr[u].ReadyStartTime = now /\ now > 0

(* ------------------- the file system's claims: sectors ------------------ *)
\* A use of a sector: who points to it (`by`) and the sector.  The slots of
\* the header in sector h that are filled point to its data sectors or, for
\* an indirect header, to its sub-headers, whose slots are followed in turn.
RECURSIVE UsesOfHeader(_, _)
UsesOfHeader(disk, h) ==
    IF BadHeaderSector(disk, h) THEN {}
    ELSE IF FetchHeader(disk, h).numBytes > Level2
    THEN UNION {{[by |-> <<"slot", h, i>>, sector |-> FetchHeader(disk, h).dataSectors[i]]}
                    \cup UsesOfHeader(disk, FetchHeader(disk, h).dataSectors[i]) :
                i \in {j \in 0 .. NumDirect - 1 :
                           FetchHeader(disk, h).dataSectors[j] \in Sectors}}
    ELSE {[by |-> <<"slot", h, i>>, sector |-> FetchHeader(disk, h).dataSectors[i]] :
              i \in {j \in 0 .. NumDirect - 1 :
                         /\ j < FetchHeader(disk, h).numSectors
                         /\ FetchHeader(disk, h).dataSectors[j] \in Sectors}}

\* the uses by the tree under the directory in sector d, down to `depth`
\* levels: every entry in use points to a header
RECURSIVE UsesOfDirectory(_, _, _)
UsesOfDirectory(disk, d, depth) ==
    IF BadHeaderSector(disk, d) THEN {}
    ELSE UNION {{[by |-> <<"entry", d, k>>, sector |-> DirectoryAt(disk, d)[k].sector]}
                    \cup UsesOfHeader(disk, DirectoryAt(disk, d)[k].sector)
                    \cup (IF DirectoryAt(disk, d)[k].isDirectory /\ depth > 0
                          THEN UsesOfDirectory(disk, DirectoryAt(disk, d)[k].sector, depth - 1)
                          ELSE {}) :
                k \in {j \in 0 .. NumDirEntries - 1 : DirectoryAt(disk, d)[j].inUse}}

\* every use there is on the disk: the headers of the bitmap file and of the
\* root directory, what they hold, and the tree under the root
Uses(disk) ==
    {[by |-> <<"fixed", s, 0>>, sector |-> s] : s \in {FreeMapSector, DirectorySector}}
        \cup UsesOfHeader(disk, FreeMapSector)
        \cup UsesOfHeader(disk, DirectorySector)
        \cup UsesOfDirectory(disk, DirectorySector, MaxCalls)

\* C29: whatever calls have returned, no sector is used twice (two uses of
\* one sector are the same use), and every sector in use is marked in the
\* persisted bitmap.
C29_NoSectorUsedTwice ==
    ~fs.crashed
        => /\ \A u, v \in Uses(fs.disk) : u.sector = v.sector => u = v
           /\ \A u \in Uses(fs.disk) : u.sector \in fs.freeMap

\* a file with sub-headers has been created in a directory beneath the root:
\* entries of two directories, slots of headers and of sub-headers are in use
C29_Witness ==
    /\ fs.op = "Create" /\ ~fs.crashed /\ fs.result = TRUE
    /\ fs.size > Level2 /\ Len(fs.path) = 2
    /\ Resolve(OnDisk, fs.path) \in fs.freeMap \ fs.beforeMap
    /\ \E u, v \in Uses(fs.disk) :
           /\ u.by[1] = "entry" /\ u.by[2] # DirectorySector
           /\ v.by = <<"slot", u.sector, 0>> /\ fs.disk[v.sector].kind = "hdr"
           /\ <<"slot", v.sector, 0>> \in {w.by : w \in Uses(fs.disk)}

\* C30: when every call so far has run to completion and returned TRUE, every
\* sector marked in the persisted bitmap is in use: it is sector 0 or 1, or
\* is held by the bitmap file, the root directory or a file or directory of
\* the tree under the root.  Create("/a", 7) and Remove("/a") break it: the
\* sectors of the two sub-headers stay marked.
C30_NoSectorLeaks ==
    (~fs.crashed /\ fs.succeeded /\ fs.op \in {"Format", "Create", "CreateAdirectory",
                                               "Remove", "RecursiveRemove"})
        => fs.freeMap \subseteq {u.sector : u \in Uses(fs.disk)}

(* ------------------- the file headers' claims: assertions --------------- *)
\* C31: once Allocate's test of the free count has passed (the bitmap has at
\* least ceil(fileSize / SectorSize) clear bits), no ASSERT on the result of
\* FindAndSet fails: the call returns.  7 bytes on a bitmap with four clear
\* bits break it: the second sub-header finds no sector.
C31_AssertionsHold ==
    (fs.op = "Allocate" /\ NumClear(fs.beforeMap) >= divRoundUp(fs.size, SectorSize))
        => ~fs.crashed

(* ------------------------ the scheduler's claims: aging ------------------ *)
\* the promotions a thread of priority p still needs to reach L1
PromotionsToL1(p) ==
    IF p >= L1Floor THEN 0 ELSE (L1Floor - p + AgingStep - 1) \div AgingStep

\* the thread's wait, by the time the clock stops, pays for those promotions
CanWait(t) ==
    Total(thr[t], MaxWaits * TickStep)
        >= PromotionsToL1(thr[t].priority) * AgingThreshold

Below(t) == thr[t].status = "READY" /\ thr[t].priority < L1Floor

\* what agingCheck has done to a thread below L1 whose priority it changed:
\* n promotions, each paid with AgingThreshold ticks of waiting and worth
\* AgingStep, and a place in L1 as soon as the priority is 100 or more
AgedStep(t) ==
    LET n == (Total(thr[t], now) - Total(thr'[t], now')) \div AgingThreshold
        raised == thr[t].priority + n * AgingStep
    IN  /\ n >= 1
        /\ Total(thr'[t], now') = Total(thr[t], now) - n * AgingThreshold
        /\ thr'[t].priority = IF raised > MaxPriority THEN MaxPriority ELSE raised
        /\ PromotionsToL1(thr'[t].priority)
               = IF n >= PromotionsToL1(thr[t].priority) THEN 0
                 ELSE PromotionsToL1(thr[t].priority) - n
        /\ (thr'[t].priority >= L1Floor /\ ~aborted') => t \in Range(L1')

\* C32: aging does not leave a waiting thread in a low band.  A ready thread of
\* priority p < 100 gains AgingStep per promotion, so ceil((100 - p) / 10)
\* promotions bring it to 100 or more, and the promotion that does so inserts
\* it into L1; and while the clock advances and agingCheck is called (the
\* kernel has not died), a thread that stays ready is led to L1.
C32_AgedIntoL1 ==
    /\ [][\A t \in Threads :
             (Below(t) /\ thr'[t].priority # thr[t].priority) => AgedStep(t)]_vars
    /\ \A t \in Threads :
           (Below(t) /\ CanWait(t))
               ~> (aborted \/ (thr[t].priority >= L1Floor /\ t \in Range(L1)))

\* a thread that was made ready below L1 has just been promoted into L1 by the
\* last agingCheck of the run, its waiting time used up, the queues below empty
C32_Witness ==
    /\ ~aborted /\ op = "agingCheck" /\ now = MaxWaits * TickStep
    /\ L2 = <<>> /\ L3 = <<>>
    /\ \E e \in aged :
           /\ e.to = 1 /\ e.t \in Range(L1)
           /\ thr[e.t].priority < L1Floor + AgingStep
           /\ Total(thr[e.t], now) = 0

============================================================================
